---- MODULE Spec2Model ----
(***************************************************************************)
(* videoxt: the request validation / preparation pipeline and the          *)
(* extraction entry points (api.py, cli.py, handlers.py, requestors.py,    *)
(* preppers.py, validators.py, utils.py).                                  *)
(*                                                                         *)
(* Conventions of the model                                                *)
(*  - a Python str is a sequence of one-character strings;                 *)
(*  - an Optional value is None (the empty tuple) or Some(v) (<<v>>);      *)
(*  - a time in seconds (float) is an integer number of ticks,             *)
(*    TicksPerSecond ticks to the second, so 0.5 s is representable;       *)
(*    floating point rounding is not modelled;                             *)
(*  - a pathlib.Path is the sequence of its components; stem and suffix   *)
(*    are computed from the last component as pathlib does;                *)
(*  - a function that can raise returns a record whose field exc names     *)
(*    the exception ("none" when it returns normally).                     *)
(***************************************************************************)
EXTENDS Integers, Sequences, FiniteSets, TLC

VARIABLES
    pc,       \* position of the running call: "idle", "execute", "extracting", "done"
    call,     \* the entry point that was called and its arguments
    fs,       \* the file system: [files, dirs], sets of existing paths
    media,    \* what the video file holds (read through cv2 and moviepy)
    handler,  \* the method of the ExtractionHandler, None before it is created
    video,    \* the Video object, None before it is created
    request,  \* the prepared request, as far as it got prepared
    made,     \* the objects the ObjectFactory has created
    result,   \* the Result object
    exc,      \* the exception that left api.extract or the called function, else "none"
    ret,      \* the value the entry point returned, None when it raised
    capture,  \* the cv2.VideoCapture object, None before it is created
    locals    \* the local variables of the function that runs step by step

vars == <<pc, call, fs, media, handler, video, request, made, result, exc, ret,
          capture, locals>>

(***************************************************************************)
(* Bounds of the model                                                     *)
(***************************************************************************)
TicksPerSecond == 2
MaxFrameCount == 4
MaxExisting == 2
MaxSeconds == 3

(***************************************************************************)
(* Optional values and strings                                             *)
(***************************************************************************)
None == <<>>
Some(v) == <<v>>
IsNone(o) == o = <<>>
Val(o) == o[1]

EmptyStr == <<>>

Digits == <<"0", "1", "2", "3", "4", "5", "6", "7", "8", "9">>

IsDigit(c) == \E i \in 1..10 : Digits[i] = c

DigitValue(c) == (CHOOSE i \in 1..10 : Digits[i] = c) - 1

\* str(n) of a non-negative int
RECURSIVE IntToStr(_)
IntToStr(n) == IF n < 10 THEN <<Digits[n + 1]>>
               ELSE IntToStr(n \div 10) \o <<Digits[(n % 10) + 1]>>

\* f"{n:02}" of a non-negative int
TwoDigits(n) == IF n < 10 THEN <<"0">> \o IntToStr(n) ELSE IntToStr(n)

LowerLetters == <<"a", "c", "d", "e", "f", "g", "i", "l", "m", "o", "p", "r", "s", "u", "v", "x">>
UpperLetters == <<"A", "C", "D", "E", "F", "G", "I", "L", "M", "O", "P", "R", "S", "U", "V", "X">>

\* str.upper() of one character
UpperChar(c) == IF \E i \in 1..Len(LowerLetters) : LowerLetters[i] = c
                THEN UpperLetters[CHOOSE i \in 1..Len(LowerLetters) : LowerLetters[i] = c]
                ELSE c

\* a lookup key left as it was given
UpperUnchanged(s) == s

\* str.upper()
Upper(s) == [i \in 1..Len(s) |-> UpperChar(s[i])]

\* str.lower() of one character
LowerChar(c) == IF \E i \in 1..Len(UpperLetters) : UpperLetters[i] = c
                THEN LowerLetters[CHOOSE i \in 1..Len(UpperLetters) : UpperLetters[i] = c]
                ELSE c

\* s.startswith(p)
StartsWith(s, p) == Len(s) >= Len(p) /\ SubSeq(s, 1, Len(p)) = p

\* index of the first / last occurrence of character c in s, 0 when absent
FirstIndex(s, c) == IF \E i \in 1..Len(s) : s[i] = c
                    THEN CHOOSE i \in 1..Len(s) : s[i] = c /\ \A j \in 1..(i - 1) : s[j] # c
                    ELSE 0

LastIndex(s, c) == IF \E i \in 1..Len(s) : s[i] = c
                   THEN CHOOSE i \in 1..Len(s) : s[i] = c /\ \A j \in (i + 1)..Len(s) : s[j] # c
                   ELSE 0

\* s.split(c)[0]
SplitHead(s, c) == IF FirstIndex(s, c) = 0 THEN s ELSE SubSeq(s, 1, FirstIndex(s, c) - 1)

\* s.split(c)
RECURSIVE Split(_, _)
Split(s, c) == IF FirstIndex(s, c) = 0 THEN <<s>>
               ELSE <<SubSeq(s, 1, FirstIndex(s, c) - 1)>>
                    \o Split(SubSeq(s, FirstIndex(s, c) + 1, Len(s)), c)

(***************************************************************************)
(* constants.py                                                            *)
(***************************************************************************)
AUDIO == "audio"
CLIP == "clip"
FRAMES == "frames"
GIF == "gif"

\* the Enum: member name |-> member value
ExtractionMethod ==
    << [name |-> <<"A", "U", "D", "I", "O">>, value |-> AUDIO],
       [name |-> <<"C", "L", "I", "P">>, value |-> CLIP],
       [name |-> <<"F", "R", "A", "M", "E", "S">>, value |-> FRAMES],
       [name |-> <<"G", "I", "F">>, value |-> GIF] >>

MethodValues == {ExtractionMethod[i].value : i \in 1..Len(ExtractionMethod)}

\* ExtractionMethod[key]: the member's value, or KeyError
EnumLookup(key) ==
    IF \E i \in 1..Len(ExtractionMethod) : ExtractionMethod[i].name = key
    THEN [exc |-> "none",
          value |-> ExtractionMethod[CHOOSE i \in 1..Len(ExtractionMethod) :
                                        ExtractionMethod[i].name = key].value]
    ELSE [exc |-> "KeyError", value |-> "none"]

(***************************************************************************)
(* Python values given as numbers or strings.  A float is a number of      *)
(* ticks (1.0 = TicksPerSecond); a str is a character sequence.            *)
(***************************************************************************)
Num(n) == [num |-> TRUE, n |-> n, s |-> EmptyStr]
Str(s) == [num |-> FALSE, n |-> 0, s |-> s]

Ok(v) == [exc |-> "none", v |-> v]
Raise(e) == [exc |-> e, v |-> None]

\* value of a run of digits
RECURSIVE DigitsValue(_)
DigitsValue(s) == IF Len(s) = 0 THEN 0
                  ELSE 10 * DigitsValue(SubSeq(s, 1, Len(s) - 1)) + DigitValue(s[Len(s)])

AllDigits(s) == \A i \in 1..Len(s) : IsDigit(s[i])

\* float(s) of an unsigned decimal literal "ddd", "ddd.d...", in ticks
\* (the fraction is cut to the tick resolution)
UnsignedFloat(s) ==
    LET dot == FirstIndex(s, ".")
        ip == IF dot = 0 THEN s ELSE SubSeq(s, 1, dot - 1)
        fp == IF dot = 0 THEN EmptyStr ELSE SubSeq(s, dot + 1, Len(s))
    IN  IF AllDigits(ip) /\ AllDigits(fp) /\ Len(ip) + Len(fp) > 0
        THEN Ok(DigitsValue(ip) * TicksPerSecond
                + (IF Len(fp) = 0 THEN 0 ELSE (DigitValue(fp[1]) * TicksPerSecond) \div 10))
        ELSE Raise("ValueError")

\* s.strip(): float(s) ignores white space around the literal
RECURSIVE Strip(_)
Strip(s) ==
    IF Len(s) > 0 /\ s[1] \in {" ", "\n"} THEN Strip(Tail(s))
    ELSE IF Len(s) > 0 /\ s[Len(s)] \in {" ", "\n"} THEN Strip(SubSeq(s, 1, Len(s) - 1))
    ELSE s

\* float(s) for a str s
ParseFloat(s) ==
    IF Len(Strip(s)) > 0 /\ Strip(s)[1] = "-"
    THEN LET r == UnsignedFloat(Tail(Strip(s)))
         IN  IF r.exc = "none" THEN Ok(0 - r.v) ELSE r
    ELSE UnsignedFloat(Strip(s))

\* float(x) for a number or a str
ToFloat(x) == IF x.num THEN Ok(x.n) ELSE ParseFloat(x.s)

\* math.floor(a / b) for b > 0
FloorDiv(a, b) == IF a >= 0 THEN a \div b ELSE 0 - (((0 - a) + b - 1) \div b)

\* int(seconds): truncation toward zero of a float given in ticks
TruncSeconds(t) == IF t >= 0 THEN t \div TicksPerSecond ELSE 0 - ((0 - t) \div TicksPerSecond)

Pow60(e) == IF e = 0 THEN 1 ELSE IF e = 1 THEN 60 ELSE IF e = 2 THEN 3600 ELSE 216000

(***************************************************************************)
(* utils.py                                                                *)
(***************************************************************************)
\* sum(float(part) * 60**exponent for exponent, part in enumerate(reversed(parts)))
RECURSIVE SumParts(_)
SumParts(parts) ==
    IF Len(parts) = 0 THEN Ok(0)
    ELSE LET p == ParseFloat(parts[1])
             rest == SumParts(Tail(parts))
         IN  IF p.exc # "none" THEN p
             ELSE IF rest.exc # "none" THEN rest
             ELSE Ok(p.v * Pow60(Len(parts) - 1) + rest.v)

timestamp_to_seconds(timestamp) == SumParts(Split(SplitHead(timestamp, "."), ":"))

seconds_to_timestamp(seconds) ==
    IF seconds <= 0 THEN <<"0", ":", "0", "0", ":", "0", "0">>
    ELSE LET t == TruncSeconds(seconds)
         IN  IntToStr(t \div 3600) \o <<":">> \o TwoDigits((t % 3600) \div 60)
             \o <<":">> \o TwoDigits(t % 60)

InvalidFilenameChars == {"\\", "/", ":", "*", "?", "\"", "<", ">", "|"}

valid_filename(filename) ==
    IF IsNone(filename) THEN Raise("ValidationError")
    ELSE IF Len(Val(filename)) = 0 THEN Raise("ValidationError")
    ELSE IF \E i \in 1..Len(Val(filename)) : Val(filename)[i] \in InvalidFilenameChars
         THEN Raise("ValidationError")
    ELSE Ok(Val(filename))

\* an enumeration that numbers the first tagged name too
append_enumeration_numbered(index, tag) ==
    LET idx == IF index < 1 THEN 1 ELSE index
    IN  IF IsNone(tag) THEN Ok(<<" ", "(">> \o IntToStr(idx) \o <<")">>)
        ELSE LET t == valid_filename(tag)
             IN  IF t.exc # "none" THEN t
                 ELSE Ok(t.v \o <<" ", "(">> \o IntToStr(idx) \o <<")">>)

append_enumeration(index, tag) ==
    LET idx == IF index < 1 THEN 1 ELSE index
    IN  IF IsNone(tag) THEN Ok(<<" ", "(">> \o IntToStr(idx) \o <<")">>)
        ELSE LET t == valid_filename(tag)
             IN  IF t.exc # "none" THEN t
                 ELSE IF idx > 1 THEN Ok(t.v \o <<" ", "(">> \o IntToStr(idx) \o <<")">>)
                 ELSE Ok(t.v)

(***************************************************************************)
(* pathlib: a Path is the sequence of its components                       *)
(***************************************************************************)
PathName(p) == p[Len(p)]
PathParent(p) == SubSeq(p, 1, Len(p) - 1)
PathJoin(dir, name) == Append(dir, name)
WithName(p, name) == Append(PathParent(p), name)

HasSuffix(name) == LastIndex(name, ".") > 1 /\ LastIndex(name, ".") < Len(name)
PathSuffix(p) == IF HasSuffix(PathName(p))
                 THEN SubSeq(PathName(p), LastIndex(PathName(p), "."), Len(PathName(p)))
                 ELSE EmptyStr
PathStem(p) == IF HasSuffix(PathName(p))
               THEN SubSeq(PathName(p), 1, LastIndex(PathName(p), ".") - 1)
               ELSE PathName(p)

\* Path.exists() on the file system f = [files, dirs]
Exists(f, p) == p \in f.files \/ p \in f.dirs
IsDir(f, p) == p \in f.dirs

RECURSIVE EnumerateFilepathFrom(_, _, _, _)
EnumerateFilepathFrom(f, filepath, tag, index) ==
    LET append_str == append_enumeration(index, tag)
    IN  IF append_str.exc # "none" THEN append_str
        ELSE LET new_filepath ==
                     WithName(filepath, PathStem(filepath) \o append_str.v \o PathSuffix(filepath))
             IN  IF ~Exists(f, new_filepath) THEN Ok(new_filepath)
                 ELSE EnumerateFilepathFrom(f, filepath, tag, index + 1)

\* an enumeration that stops at the first tagged name without looking at it
enumerate_filepath_first(f, filepath, tag) ==
    IF ~Exists(f, filepath) THEN Ok(filepath)
    ELSE Ok(WithName(filepath, PathStem(filepath) \o append_enumeration(1, tag).v
                               \o PathSuffix(filepath)))

enumerate_filepath(f, filepath, tag) ==
    IF ~Exists(f, filepath) THEN Ok(filepath)
    ELSE EnumerateFilepathFrom(f, filepath, tag, 1)

RECURSIVE EnumerateDirFrom(_, _, _, _)
EnumerateDirFrom(f, directory, tag, index) ==
    LET append_str == append_enumeration(index, tag)
    IN  IF append_str.exc # "none" THEN append_str
        ELSE LET new_dir == WithName(directory, PathName(directory) \o append_str.v)
             IN  IF ~Exists(f, new_dir) THEN Ok(new_dir)
                 ELSE EnumerateDirFrom(f, directory, tag, index + 1)

enumerate_dir(f, directory, tag) ==
    IF ~Exists(f, directory) THEN Ok(directory)
    ELSE EnumerateDirFrom(f, directory, tag, 1)

(***************************************************************************)
(* validators.py                                                           *)
(***************************************************************************)
\* a check that lets 0 pass
positive_float_nonstrict(n) ==
    LET value == ToFloat(n)
    IN  IF value.exc # "none" THEN Raise("ValidationError")
        ELSE IF value.v < 0 THEN Raise("ValidationError")
        ELSE Ok(value.v)

positive_float(n) ==
    LET value == ToFloat(n)
    IN  IF value.exc # "none" THEN Raise("ValidationError")
        ELSE IF value.v <= 0 THEN Raise("ValidationError")
        ELSE Ok(value.v)

non_negative_float(n) ==
    LET value == ToFloat(n)
    IN  IF value.exc # "none" THEN Raise("ValidationError")
        ELSE IF value.v < 0 THEN Raise("ValidationError")
        ELSE Ok(value.v)

positive_int(n) ==
    LET value == ToFloat(n)
    IN  IF value.exc # "none" THEN Raise("ValidationError")
        \* float.is_integer() of a float given in ticks
        ELSE IF value.v % TicksPerSecond # 0 THEN Raise("ValidationError")
        ELSE IF value.v <= 0 THEN Raise("ValidationError")
        ELSE Ok(value.v \div TicksPerSecond)

\* [0-5][0-9]
IsSexagesimal(s) == Len(s) = 2 /\ IsDigit(s[1]) /\ DigitValue(s[1]) <= 5 /\ IsDigit(s[2])

\* re.match(r"^([0-9]|[0-5][0-9])(:[0-5][0-9]){1,2}$", s); $ matches at the
\* end of s and also before a newline that ends s
MatchesTimestamp(s) ==
    LET parts == Split(IF Len(s) > 0 /\ s[Len(s)] = "\n" THEN SubSeq(s, 1, Len(s) - 1)
                       ELSE s, ":")
    IN  /\ Len(parts) \in {2, 3}
        /\ \/ (Len(parts[1]) = 1 /\ IsDigit(parts[1][1]))
           \/ IsSexagesimal(parts[1])
        /\ \A i \in 2..Len(parts) : IsSexagesimal(parts[i])

valid_timestamp(timestamp) ==
    IF IsNone(timestamp) THEN Raise("ValidationError")
    ELSE IF Len(Val(timestamp)) = 0 THEN Raise("ValidationError")
    ELSE LET ts == SplitHead(Val(timestamp), ".")
         IN  IF ~MatchesTimestamp(ts) THEN Raise("ValidationError") ELSE Ok(ts)

valid_start_timestamp(start_timestamp) ==
    LET timestamp == valid_timestamp(Some(start_timestamp))
    IN  IF timestamp.exc # "none" THEN timestamp
        ELSE LET secs == timestamp_to_seconds(timestamp.v)
             IN  IF secs.exc # "none" THEN secs
                 ELSE IF non_negative_float(Num(secs.v)).exc # "none"
                      THEN Raise("ValidationError")
                 ELSE Ok(timestamp.v)

valid_stop_timestamp(stop_timestamp) ==
    LET timestamp == valid_timestamp(Some(stop_timestamp))
    IN  IF timestamp.exc # "none" THEN timestamp
        ELSE LET secs == timestamp_to_seconds(timestamp.v)
             IN  IF secs.exc # "none" THEN secs
                 ELSE IF positive_float(Num(secs.v)).exc # "none"
                      THEN Raise("ValidationError")
                 ELSE Ok(timestamp.v)

\* returns the validated time as Num (a float) or Str (a timestamp)
valid_start_time(start_time) ==
    LET start_time_float == ToFloat(start_time)
    IN  IF start_time_float.exc = "ValueError"
        THEN LET ts == valid_start_timestamp(start_time.s)
             IN  IF ts.exc # "none" THEN Raise("ValidationError") ELSE Ok(Str(ts.v))
        ELSE LET f == non_negative_float(Num(start_time_float.v))
             IN  IF f.exc # "none" THEN Raise("ValidationError") ELSE Ok(Num(f.v))

valid_stop_time(stop_time) ==
    LET stop_time_float == ToFloat(stop_time)
    IN  IF stop_time_float.exc = "ValueError"
        THEN LET ts == valid_stop_timestamp(stop_time.s)
             IN  IF ts.exc # "none" THEN Raise("ValidationError") ELSE Ok(Str(ts.v))
        ELSE LET f == positive_float(Num(stop_time_float.v))
             IN  IF f.exc # "none" THEN Raise("ValidationError") ELSE Ok(Num(f.v))

\* a range check that lets an empty range (stop = start) pass
valid_extraction_range_nonstrict(start, stop, duration) ==
    LET stop1 == IF stop > duration THEN duration ELSE stop
        start1 == IF start < 0 THEN 0 ELSE start
    IN  IF start1 >= duration THEN Raise("ValidationError")
        ELSE IF stop1 < start1 THEN Raise("ValidationError")
        ELSE Ok(<<start1, stop1, duration>>)

valid_extraction_range(start, stop, duration) ==
    LET stop1 == IF stop > duration THEN duration ELSE stop
        start1 == IF start < 0 THEN 0 ELSE start
    IN  IF start1 >= duration THEN Raise("ValidationError")
        ELSE IF stop1 <= start1 THEN Raise("ValidationError")
        ELSE Ok(<<start1, stop1, duration>>)

valid_volume(volume) ==
    IF IsNone(volume) THEN Raise("ValidationError")
    ELSE IF Val(volume).num THEN Ok(IF Val(volume).n > 0 THEN Val(volume).n ELSE 0)
    ELSE LET vol == ParseFloat(Val(volume).s)
         IN  IF vol.exc # "none" THEN Raise("ValidationError")
             ELSE Ok(IF vol.v > 0 THEN vol.v ELSE 0)

valid_dir(f, directory) ==
    IF IsNone(directory) THEN Raise("ValidationError")
    ELSE IF ~IsDir(f, Val(directory)) THEN Raise("ValidationError")
    ELSE IF Val(directory) = <<>> THEN Raise("ValidationError")
    ELSE Ok(Val(directory))

SUPPORTED_AUDIO_FORMATS ==
    { <<"m", "4", "a">>, <<"m", "p", "3">>, <<"o", "g", "g">>, <<"w", "a", "v">> }

\* str.lower()
Lower(s) == [i \in 1..Len(s) |-> LowerChar(s[i])]

\* str.lstrip(".")
RECURSIVE LStripDot(_)
LStripDot(s) == IF Len(s) > 0 /\ s[1] = "." THEN LStripDot(Tail(s)) ELSE s

valid_audio_format(audio_format) ==
    LET fmt == LStripDot(Lower(audio_format))
    IN  IF fmt \notin SUPPORTED_AUDIO_FORMATS THEN Raise("ValidationError") ELSE Ok(fmt)

(***************************************************************************)
(* preppers.py                                                             *)
(***************************************************************************)
\* the fields of an ExtractionRange that __post_init__ computes; None = not set
UnsetRange ==
    [start_second |-> None, stop_second |-> None,
     start_timestamp |-> None, stop_timestamp |-> None,
     start_frame |-> None, stop_frame |-> None]

\* float(t) if isinstance(t, (float, int)) else U.timestamp_to_seconds(t)
TimeToSeconds(t) == IF t.num THEN Ok(t.n) ELSE timestamp_to_seconds(t.s)

\* math.floor(second * fps), both floats given in ticks
FrameOf(second, fps) == FloorDiv(second * fps, TicksPerSecond * TicksPerSecond)

\* a stop second stored as it was given
PrepareStopSecondUncapped(stop, duration_seconds) == stop

\* ExtractionRange._prepare_stop_second: the stop second stored in the range
PrepareStopSecond(stop, duration_seconds) ==
    IF stop > duration_seconds THEN duration_seconds ELSE stop

\* ExtractionRange._validate_range
ValidateRange(start_second, stop_second, duration_seconds) ==
    valid_extraction_range(start_second, stop_second, duration_seconds)

\* ExtractionRange.__post_init__: [exc, range], range holding what was set
\* when the exception (if any) was raised
ExtractionRange(duration_seconds, frame_count, start_time, stop_time, fps) ==
    LET start == TimeToSeconds(start_time)
        stop == TimeToSeconds(stop_time)
    IN  IF start.exc # "none" THEN [exc |-> start.exc, range |-> UnsetRange]
        ELSE LET r1 == [UnsetRange EXCEPT !.start_second = Some(start.v)]
        IN  IF stop.exc # "none" THEN [exc |-> stop.exc, range |-> r1]
        ELSE LET stop_second == PrepareStopSecond(stop.v, duration_seconds)
                 r2 == [r1 EXCEPT !.stop_second = Some(stop_second)]
                 valid == ValidateRange(start.v, stop_second, duration_seconds)
        IN  IF valid.exc # "none" THEN [exc |-> valid.exc, range |-> r2]
        ELSE LET r4 == [r2 EXCEPT !.start_timestamp = Some(seconds_to_timestamp(start.v)),
                                  !.stop_timestamp = Some(seconds_to_timestamp(stop_second))]
        IN  IF ~fps.num THEN [exc |-> "TypeError", range |-> r4]
        ELSE [exc |-> "none",
              range |-> [r4 EXCEPT !.start_frame = Some(FrameOf(start.v, fps.n)),
                                   !.stop_frame = Some(FrameOf(stop_second, fps.n))]]

prepare_extraction_range(duration_seconds, frame_count, prepared_start_time, prepared_stop_time, prepared_fps) ==
    IF IsNone(prepared_start_time) \/ IsNone(prepared_stop_time) \/ IsNone(prepared_fps)
    THEN [exc |-> "PreparationError", range |-> UnsetRange]
    ELSE ExtractionRange(duration_seconds, frame_count, Val(prepared_start_time),
                         Val(prepared_stop_time), Val(prepared_fps))

\* int(d * resize) for an int d and a float resize given in ticks
\* int(dim * request_resize): the product is truncated toward zero
ScaleDim(d, resize) == TruncSeconds(d * resize)

\* a resize that is always applied to the video's dimensions
prepare_dimensions_of_video(video_dimensions, request_dimensions, request_resize) ==
    IF ~IsNone(request_resize) /\ Val(request_resize) # TicksPerSecond
    THEN <<ScaleDim(video_dimensions[1], Val(request_resize)),
           ScaleDim(video_dimensions[2], Val(request_resize))>>
    ELSE IF IsNone(request_dimensions) THEN video_dimensions
    ELSE Val(request_dimensions)

prepare_dimensions(video_dimensions, request_dimensions, request_resize) ==
    LET dims == IF IsNone(request_dimensions) THEN video_dimensions
                ELSE Val(request_dimensions)
    IN  IF ~IsNone(request_resize) /\ Val(request_resize) # TicksPerSecond
        THEN <<ScaleDim(dims[1], Val(request_resize)), ScaleDim(dims[2], Val(request_resize))>>
        ELSE dims

\* base_dir / f"{request_filename or video_filepath.stem}{suffix}"
DestPathOf(video_filepath, request_filename, request_destdir, prepared_suffix) ==
    LET base_dir == IF IsNone(request_destdir) THEN PathParent(video_filepath)
                    ELSE Val(request_destdir)
        suffix == IF StartsWith(prepared_suffix, <<".">>) THEN prepared_suffix
                  ELSE <<".">> \o prepared_suffix
        stem == IF IsNone(request_filename) \/ Val(request_filename) = EmptyStr
                THEN PathStem(video_filepath) ELSE Val(request_filename)
    IN  PathJoin(base_dir, stem \o suffix)

TagVxt == <<"_", "v", "x", "t">>
TagFrames == <<"_", "f", "r", "a", "m", "e", "s">>

\* a destination that is never overwritten
OverwriteNever(prepared_overwrite, dest_path, video_filepath) == FALSE

\* prepared_overwrite is True and dest_path != video_filepath
OverwriteAllowed(prepared_overwrite, dest_path, video_filepath) ==
    prepared_overwrite = Some(TRUE) /\ dest_path # video_filepath

prepare_destpath(f, video_filepath, request_filename, request_destdir, prepared_suffix, prepared_overwrite) ==
    IF IsNone(prepared_suffix) THEN Raise("PreparationError")
    ELSE LET dest_path == DestPathOf(video_filepath, request_filename, request_destdir,
                                     Val(prepared_suffix))
         IN  IF OverwriteAllowed(prepared_overwrite, dest_path, video_filepath)
             THEN Ok(dest_path)
             ELSE enumerate_filepath(f, dest_path, Some(TagVxt))

prepare_start_time(request_start_time) ==
    IF ~IsNone(request_start_time) THEN Val(request_start_time) ELSE Num(0)

\* a stop time that is always the video's duration
prepare_stop_time_duration(video_duration_seconds, request_stop_time) ==
    Num(video_duration_seconds)

prepare_stop_time(video_duration_seconds, request_stop_time) ==
    IF ~IsNone(request_stop_time) THEN Val(request_stop_time)
    ELSE Num(video_duration_seconds)

prepare_fps(video_fps, request_fps) ==
    IF ~IsNone(request_fps) THEN Val(request_fps) ELSE Num(video_fps)

\* a requested directory that is never used
RequestedDestdirUnused(request_destdir, video_filepath) == FALSE

\* request_destdir is not None and request_destdir != video_filepath
UsesRequestedDestdir(request_destdir, video_filepath) ==
    ~IsNone(request_destdir) /\ Val(request_destdir) # video_filepath

prepare_destpath_frames(f, video_filepath, request_destdir, prepared_overwrite) ==
    IF UsesRequestedDestdir(request_destdir, video_filepath) THEN Ok(Val(request_destdir))
    ELSE LET default_destdir == PathJoin(PathParent(video_filepath), PathName(video_filepath))
         IN  IF prepared_overwrite = Some(TRUE)
             THEN Ok(WithName(default_destdir, PathName(video_filepath) \o TagFrames))
             ELSE enumerate_dir(f, default_destdir, Some(TagFrames))

\* math.ceil(a / b) for ints, b # 0
\* a division that rounds down
CeilDivFloor(a, b) == IF b > 0 THEN FloorDiv(a, b) ELSE FloorDiv(0 - a, 0 - b)

\* math.ceil(a / b) for b # 0
CeilDiv(a, b) == IF b > 0 THEN 0 - FloorDiv(0 - a, b) ELSE 0 - FloorDiv(a, 0 - b)

\* capture_rate is a number given in ticks (1 = TicksPerSecond)
prepare_images_expected(start_frame, stop_frame, capture_rate) ==
    IF IsNone(start_frame) \/ IsNone(stop_frame) \/ IsNone(capture_rate)
    THEN Raise("PreparationError")
    ELSE IF Val(capture_rate) = 0 THEN Raise("PreparationError")
    ELSE Ok(CeilDiv((Val(stop_frame) - Val(start_frame)) * TicksPerSecond,
                    Val(capture_rate)))

(***************************************************************************)
(* validators.py, continued                                                *)
(***************************************************************************)
SUPPORTED_IMAGE_FORMATS ==
    { <<"b", "m", "p">>, <<"d", "i", "b">>, <<"j", "p", "2">>, <<"j", "p", "e", "g">>,
      <<"j", "p", "g">>, <<"p", "n", "g">>, <<"t", "i", "f">>, <<"t", "i", "f", "f">>,
      <<"w", "e", "b", "p">> }

SUPPORTED_VIDEO_FORMATS ==
    { <<"3", "g", "p">>, <<"a", "s", "f">>, <<"a", "v", "i">>, <<"d", "i", "v", "x">>,
      <<"f", "l", "v">>, <<"m", "4", "v">>, <<"m", "k", "v">>, <<"m", "o", "v">>,
      <<"m", "p", "4">>, <<"m", "p", "e", "g">>, <<"m", "p", "g">>, <<"o", "g", "v">>,
      <<"r", "m">>, <<"t", "s">>, <<"v", "o", "b">>, <<"w", "e", "b", "m">>,
      <<"w", "m", "v">> }

valid_image_format(image_format) ==
    LET fmt == LStripDot(Lower(image_format))
    IN  IF fmt \notin SUPPORTED_IMAGE_FORMATS THEN Raise("ValidationError") ELSE Ok(fmt)

valid_video_file_suffix(suffix) ==
    LET sfx == LStripDot(Lower(suffix))
    IN  IF sfx \notin SUPPORTED_VIDEO_FORMATS THEN Raise("ValidationError") ELSE Ok(sfx)

valid_filepath(f, filepath, is_video) ==
    IF ~Exists(f, filepath) THEN Raise("ValidationError")
    ELSE IF filepath \notin f.files THEN Raise("ValidationError")
    ELSE IF is_video /\ valid_video_file_suffix(PathSuffix(filepath)).exc # "none"
         THEN Raise("ValidationError")
    ELSE Ok(filepath)

\* dimensions is a tuple of ints
valid_dimensions(dimensions) ==
    IF Len(dimensions) # 2 THEN Raise("ValidationError")
    ELSE IF \E i \in 1..2 : dimensions[i] <= 0 THEN Raise("ValidationError")
    ELSE Ok(dimensions)

VALID_ROTATE_VALUES == {0, 90, 180, 270}

\* int(n): truncation of a number, int literal of a str
ToInt(n) ==
    IF n.num THEN Ok(TruncSeconds(n.n))
    ELSE IF Len(Strip(n.s)) > 0 /\ AllDigits(Strip(n.s)) THEN Ok(DigitsValue(Strip(n.s)))
    ELSE IF Len(Strip(n.s)) > 1 /\ Strip(n.s)[1] = "-" /\ AllDigits(Tail(Strip(n.s)))
         THEN Ok(0 - DigitsValue(Tail(Strip(n.s))))
    ELSE Raise("ValueError")

valid_rotate_value(n) ==
    LET val == ToInt(n)
    IN  IF val.exc # "none" THEN Raise("ValidationError")
        ELSE IF val.v \notin VALID_ROTATE_VALUES THEN Raise("ValidationError")
        ELSE Ok(val.v)

(***************************************************************************)
(* requestors.py                                                           *)
(* A request is a function from field names to Optional values, with the   *)
(* extraction range record under "extraction_range".                       *)
(***************************************************************************)
BaseFields == {"start_time", "stop_time", "destdir", "filename", "verbose",
               "overwrite", "fps"}

SpecificFields(method) ==
    IF method = AUDIO
    THEN {"audio_format", "speed", "bounce", "reverse", "volume", "normalize"}
    ELSE IF method = CLIP
    THEN {"dimensions", "resize", "rotate", "speed", "bounce", "reverse", "monochrome",
          "volume", "normalize"}
    ELSE IF method = FRAMES
    THEN {"image_format", "capture_rate", "dimensions", "resize", "rotate", "monochrome"}
    ELSE {"dimensions", "resize", "rotate", "speed", "bounce", "reverse", "monochrome"}

OptionFields == BaseFields \cup SpecificFields(AUDIO) \cup SpecificFields(CLIP)
                \cup SpecificFields(FRAMES) \cup SpecificFields(GIF)

StateFields == {"destpath", "images_expected", "_is_validated", "_is_prepared"}

\* the keyword arguments: every option None (not given)
NoOptions == [k \in OptionFields |-> None]

\* the dataclass constructor of a request type of the method; a keyword the
\* type does not declare is a TypeError
NewRequest(method, options) ==
    IF \E k \in OptionFields \ (BaseFields \cup SpecificFields(method)) : ~IsNone(options[k])
    THEN [exc |-> "TypeError", req |-> None]
    ELSE [exc |-> "none",
          req |-> [k \in OptionFields \cup StateFields \cup {"extraction_range"} |->
                     IF k \in OptionFields THEN options[k]
                     ELSE IF k = "extraction_range" THEN UnsetRange
                     ELSE None]]

\* the steps of validate() and prepare() run one after the other: F applied
\* to the value x has when the steps before it are done
Then(x, F(_)) == CHOOSE r \in {F(v) : v \in {x}} : TRUE

\* self.<field> = None if self.<field> is None else V(self.<field>)
ValidateField(st, field, V(_)) ==
    Then(st, LAMBDA s :
        IF s.exc # "none" \/ IsNone(s.req[field]) THEN s
        ELSE Then(V(Val(s.req[field])), LAMBDA res :
                 IF res.exc # "none" THEN [exc |-> res.exc, req |-> s.req]
                 ELSE [exc |-> "none", req |-> [s.req EXCEPT ![field] = Some(res.v)]]))

AsNum(res) == IF res.exc = "none" THEN Ok(Num(res.v)) ELSE res
AsInt(res) == IF res.exc = "none" THEN Ok(Num(res.v * TicksPerSecond)) ELSE res

SetField(st, field, v) ==
    Then(st, LAMBDA s :
        IF s.exc # "none" THEN s
        ELSE [exc |-> "none", req |-> [s.req EXCEPT ![field] = Some(v)]])

\* BaseRequest.validate
BaseValidate(f, st) ==
    ValidateField(
        ValidateField(
            ValidateField(
                ValidateField(
                    ValidateField(st, "start_time", valid_start_time),
                    "stop_time", valid_stop_time),
                "fps", LAMBDA x : AsNum(positive_float(x))),
            "destdir", LAMBDA x : valid_dir(f, Some(x))),
        "filename", LAMBDA x : valid_filename(Some(x)))

ValidateResize(st) == ValidateField(st, "resize", LAMBDA x : AsNum(positive_float(x)))
ValidateDimensions(st) == ValidateField(st, "dimensions", valid_dimensions)
ValidateRotate(st) == ValidateField(st, "rotate", LAMBDA x : AsInt(valid_rotate_value(x)))
ValidateSpeed(st) == ValidateField(st, "speed", LAMBDA x : AsNum(positive_float(x)))
ValidateVolume(st) == ValidateField(st, "volume", LAMBDA x : AsNum(valid_volume(Some(x))))

\* AudioRequest.validate, ClipRequest.validate, FramesRequest.validate,
\* GifRequest.validate
Validate(method, f, st) ==
    SetField(
        Then(BaseValidate(f, st), LAMBDA b :
            IF method = AUDIO
            THEN ValidateVolume(ValidateSpeed(
                     ValidateField(b, "audio_format", valid_audio_format)))
            ELSE IF method = CLIP
            THEN ValidateVolume(ValidateSpeed(ValidateRotate(ValidateDimensions(
                     ValidateResize(b)))))
            ELSE IF method = FRAMES
            THEN ValidateRotate(ValidateDimensions(ValidateResize(
                     ValidateField(ValidateField(b, "image_format", valid_image_format),
                                   "capture_rate", LAMBDA x : AsInt(positive_int(x))))))
            ELSE ValidateSpeed(ValidateRotate(ValidateDimensions(ValidateResize(b))))),
        "_is_validated", TRUE)

\* if self.<field> is None: self.<field> = default
DefaultField(st, field, default) ==
    Then(st, LAMBDA s :
        IF s.exc # "none" \/ ~IsNone(s.req[field]) THEN s
        ELSE [exc |-> "none", req |-> [s.req EXCEPT ![field] = Some(default)]])

\* self.<field> = <a preparer that can raise>, given what the preparer did
PrepareField(s, field, res) ==
    Then(res, LAMBDA r :
        IF r.exc # "none" THEN [exc |-> r.exc, req |-> s.req]
        ELSE [exc |-> "none", req |-> [s.req EXCEPT ![field] = Some(r.v)]])

\* PreparedBaseRequest._prepare_extraction_range
PrepareExtractionRange(v, st) ==
    Then(st, LAMBDA s :
        IF s.exc # "none" THEN s
        ELSE Then(prepare_extraction_range(v.duration_seconds, v.frame_count,
                                           s.req["start_time"], s.req["stop_time"],
                                           s.req["fps"]),
                  LAMBDA r :
                      \* the assignment to self.extraction_range happens only on return
                      IF r.exc # "none" THEN [exc |-> r.exc, req |-> s.req]
                      ELSE [exc |-> "none",
                            req |-> [s.req EXCEPT !["extraction_range"] = r.range]]))

\* PreparedBaseRequest._prepare_start_time
PrepareStartTime(st) ==
    Then(st, LAMBDA s : SetField(s, "start_time", prepare_start_time(s.req["start_time"])))

\* PreparedBaseRequest._prepare_stop_time
PrepareStopTime(v, st) ==
    Then(st, LAMBDA s :
        SetField(s, "stop_time", prepare_stop_time(v.duration_seconds, s.req["stop_time"])))

\* PreparedBaseRequest._prepare_fps
PrepareFps(v, st) ==
    Then(st, LAMBDA s : SetField(s, "fps", prepare_fps(v.fps, s.req["fps"])))

\* a prepare() that leaves verbose and overwrite as they were given
BasePrepareTimesOnly(v, st) ==
    PrepareExtractionRange(v, PrepareFps(v, PrepareStopTime(v, PrepareStartTime(st))))

\* PreparedBaseRequest.prepare
BasePrepare(v, st) ==
    DefaultField(
        DefaultField(
            PrepareExtractionRange(v, PrepareFps(v, PrepareStopTime(v, PrepareStartTime(st)))),
            "verbose", FALSE),
        "overwrite", FALSE)

\* a prepare() that does not look at the video's audio stream
CheckVideoHasAudioSkipped(v, st) == st

\* PreparedAudioRequest._check_video_has_audio
CheckVideoHasAudio(v, st) ==
    IF st.exc # "none" THEN st
    ELSE IF ~v.has_audio THEN [exc |-> "NoAudioError", req |-> st.req]
    ELSE st

\* _prepare_destpath of the audio, clip and gif requests
PrepareDestpath(f, v, st, suffix) ==
    Then(st, LAMBDA s :
        IF s.exc # "none" THEN s
        ELSE PrepareField(s, "destpath",
                          prepare_destpath(f, v.filepath, s.req["filename"],
                                           s.req["destdir"], suffix, s.req["overwrite"])))

\* PreparedFramesRequest._prepare_destpath
PrepareDestpathFrames(f, v, st) ==
    Then(st, LAMBDA s :
        IF s.exc # "none" THEN s
        ELSE PrepareField(s, "destpath",
                          prepare_destpath_frames(f, v.filepath, s.req["destdir"],
                                                  s.req["overwrite"])))

\* _prepare_dimensions of the clip, frames and gif requests
PrepareDimensions(v, st) ==
    Then(st, LAMBDA s :
        IF s.exc # "none" THEN s
        ELSE IF ~Val(s.req["resize"]).num THEN [exc |-> "ValueError", req |-> s.req]
        ELSE SetField(s, "dimensions",
                      prepare_dimensions(v.dimensions, s.req["dimensions"],
                                         Some(Val(s.req["resize"]).n))))

\* PreparedFramesRequest._prepare_images_expected
PrepareImagesExpected(st) ==
    Then(st, LAMBDA s :
        IF s.exc # "none" THEN s
        ELSE IF ~Val(s.req["capture_rate"]).num THEN [exc |-> "TypeError", req |-> s.req]
        ELSE PrepareField(s, "images_expected",
                          prepare_images_expected(s.req["extraction_range"].start_frame,
                                                  s.req["extraction_range"].stop_frame,
                                                  Some(Val(s.req["capture_rate"]).n))))

StrMp3 == <<"m", "p", "3">>
StrJpg == <<"j", "p", "g">>
SuffixMp4 == <<".", "m", "p", "4">>
SuffixGif == <<".", "g", "i", "f">>

One == Num(TicksPerSecond)

PreparedAudioRequest_prepare(f, v, st) ==
    SetField(
        DefaultField(DefaultField(DefaultField(DefaultField(DefaultField(
            Then(DefaultField(
                     BasePrepare(v, CheckVideoHasAudio(v, st)),
                     "audio_format", StrMp3),
                 LAMBDA s : PrepareDestpath(f, v, s, s.req["audio_format"])),
            "speed", One), "bounce", FALSE), "reverse", FALSE), "volume", One),
            "normalize", FALSE),
        "_is_prepared", TRUE)

PreparedClipRequest_prepare(f, v, st) ==
    SetField(
        DefaultField(DefaultField(DefaultField(DefaultField(DefaultField(
        DefaultField(DefaultField(
            PrepareDimensions(v,
                DefaultField(
                    PrepareDestpath(f, v, BasePrepare(v, st),
                                    Some(SuffixMp4)),
                    "resize", One)),
            "rotate", Num(0)), "speed", One), "bounce", FALSE), "reverse", FALSE),
            "monochrome", FALSE), "volume", One), "normalize", FALSE),
        "_is_prepared", TRUE)

PreparedFramesRequest_prepare(f, v, st) ==
    SetField(
        PrepareImagesExpected(
            DefaultField(DefaultField(
                PrepareDimensions(v,
                    DefaultField(DefaultField(DefaultField(DefaultField(
                        PrepareDestpathFrames(f, v,
                            BasePrepare(v, st)),
                        "filename", PathStem(v.filepath)), "image_format", StrJpg),
                        "capture_rate", One), "resize", One)),
                "rotate", Num(0)), "monochrome", FALSE)),
        "_is_prepared", TRUE)

PreparedGifRequest_prepare(f, v, st) ==
    SetField(
        DefaultField(DefaultField(DefaultField(DefaultField(DefaultField(
            PrepareDimensions(v,
                DefaultField(
                    PrepareDestpath(f, v, BasePrepare(v, st),
                                    Some(SuffixGif)),
                    "resize", One)),
            "rotate", Num(0)), "speed", One), "bounce", FALSE), "monochrome", FALSE),
            "reverse", FALSE),
        "_is_prepared", TRUE)

\* PREPARED_REQUEST_MAP[method](video, ...).prepare(); st: the request as
\* constructed, or the exception that kept it from being constructed
Prepare(method, f, v, st) ==
    IF method = AUDIO THEN PreparedAudioRequest_prepare(f, v, st)
    ELSE IF method = CLIP THEN PreparedClipRequest_prepare(f, v, st)
    ELSE IF method = FRAMES THEN PreparedFramesRequest_prepare(f, v, st)
    ELSE PreparedGifRequest_prepare(f, v, st)

\* BaseRequest.is_validated: _is_validated is declared field(init=False) without
\* a default, so the attribute exists only once validate() has assigned it
is_validated(req) ==
    IF IsNone(req["_is_validated"]) THEN Raise("AttributeError")
    ELSE Ok(Val(req["_is_validated"]))

\* PreparedBaseRequest.is_prepared: _is_prepared is declared the same way
is_prepared(req) ==
    IF IsNone(req["_is_prepared"]) THEN Raise("AttributeError")
    ELSE Ok(Val(req["_is_prepared"]))

\* the calls of validate() a request sees, in order: "validate" is a call of
\* validate(), "prepare" is the `if not self.is_validated: self.validate()`
\* that <Method>Request.prepare(video) starts with
RECURSIVE RunValidation(_, _, _, _)
RunValidation(calls, method, f, st) ==
    IF calls = <<>> \/ st.exc # "none" THEN st
    ELSE IF Head(calls) = "prepare" /\ is_validated(st.req).exc # "none"
    THEN [exc |-> is_validated(st.req).exc, req |-> st.req]
    ELSE IF Head(calls) = "prepare" /\ is_validated(st.req).v
    THEN RunValidation(Tail(calls), method, f, st)
    ELSE Then(Validate(method, f, st),
              LAMBDA validated : RunValidation(Tail(calls), method, f, validated))

(***************************************************************************)
(* handlers.py                                                             *)
(***************************************************************************)
\* the prepared request object that <Method>Request.prepare(video) builds
\* from the validated one: the option fields are copied, the state is new
FromValidated(st) ==
    Then(st, LAMBDA s :
        IF s.exc # "none" THEN s
        ELSE [exc |-> "none", req |-> [s.req EXCEPT !["_is_validated"] = None]])

\* ObjectFactory.make_prepared_request; options is None or Some(keyword arguments)
make_prepared_request(method, f, v, options, skip_validation) ==
    Then(IF IsNone(options) THEN NewRequest(method, NoOptions)
         ELSE IF skip_validation THEN NewRequest(method, Val(options))
         ELSE FromValidated(RunValidation(<<"validate", "prepare">>, method, f,
                                          NewRequest(method, Val(options)))),
         LAMBDA st : Prepare(method, f, v, st))

\* ObjectFactory.make_video: Video(Path(filepath)).__post_init__
make_video(f, m, filepath) ==
    IF valid_filepath(f, filepath, TRUE).exc # "none" THEN Raise("ValidationError")
    ELSE IF m.filesize <= 0 THEN Raise("ValidationError")
    ELSE IF ~m.opens THEN Raise("ClosedVideoCaptureError")
    ELSE IF valid_dimensions(m.dimensions).exc # "none" THEN Raise("VideoValidationError")
    ELSE IF m.fps <= 0 THEN Raise("VideoValidationError")
    ELSE IF m.frame_count <= 0 THEN Raise("VideoValidationError")
    ELSE Ok([filepath |-> filepath,
             dimensions |-> m.dimensions,
             fps |-> m.fps,
             frame_count |-> m.frame_count,
             \* timedelta(seconds=frame_count / fps).total_seconds()
             duration_seconds |->
                 (m.frame_count * TicksPerSecond * TicksPerSecond) \div m.fps,
             has_audio |-> m.has_audio])

\* Result(method=self.method.value)
make_result(method) ==
    [success |-> None, method |-> Some(method), message |-> None,
     destpath |-> None, elapsed_time |-> None]

\* the exceptions derived from VideoXTError
VideoXTErrors ==
    {"InvalidExtractionMethod", "ClosedVideoCaptureError", "VideoValidationError",
     "PreparationError", "ValidationError", "NoAudioError", "FrameReadError",
     "VideoCaptureSetError", "FrameWriteError", "GifWriteError", "AudioWriteError",
     "ClipWriteError", "BuildImagePathError"}

\* how extractor.extract() can end, as ExtractionHandler._perform_extraction
\* distinguishes it
ExtractOutcomes == {"return", "VideoXTError", "KeyboardInterrupt"}

(***************************************************************************)
(* The environment: one video file and the paths that may already exist    *)
(***************************************************************************)
VideoDir == << <<"d">> >>
OtherDir == << <<"o">> >>
VideoFile == PathJoin(VideoDir, <<"v", ".", "m", "p", "4">>)

BasicFs == [files |-> {VideoFile}, dirs |-> {VideoDir, OtherDir}]

\* path, path + tag, path + tag (2), ...: the first n + 1 names enumerate_filepath tries
RECURSIVE FileFamily(_, _, _)
FileFamily(path, tag, n) ==
    IF n = 0 THEN {path}
    ELSE FileFamily(path, tag, n - 1)
         \cup {WithName(path, PathStem(path) \o append_enumeration(n, tag).v
                              \o PathSuffix(path))}

RECURSIVE DirFamily(_, _, _)
DirFamily(path, tag, n) ==
    IF n = 0 THEN {path}
    ELSE DirFamily(path, tag, n - 1)
         \cup {WithName(path, PathName(path) \o append_enumeration(n, tag).v)}

StemA == <<"a">>

\* the video file plus any files of one destination's names, or any
\* directories of the frames destination's names
FileSystems ==
    LET plain == { PathJoin(VideoDir, <<"v", ".", "m", "p", "3">>), VideoFile,
                   PathJoin(VideoDir, <<"v", ".", "g", "i", "f">>),
                   PathJoin(OtherDir, <<"a", ".", "m", "p", "3">>) }
        frames == DirFamily(VideoFile, Some(TagFrames), MaxExisting) \ {VideoFile}
    IN  { [files |-> {VideoFile} \cup extra, dirs |-> {VideoDir, OtherDir}] :
              extra \in UNION {SUBSET FileFamily(path, Some(TagVxt), MaxExisting) :
                                   path \in plain} }
        \cup { [files |-> {VideoFile}, dirs |-> {VideoDir, OtherDir} \cup extra] :
                  extra \in SUBSET frames }

DefaultMedia ==
    [filesize |-> 1, opens |-> TRUE, dimensions |-> <<4, 2>>, fps |-> 2 * TicksPerSecond,
     frame_count |-> MaxFrameCount, has_audio |-> TRUE]

MediaKinds ==
    { [DefaultMedia EXCEPT !.fps = r, !.frame_count = n, !.has_audio = a] :
          r \in {TicksPerSecond, 2 * TicksPerSecond}, n \in 0..MaxFrameCount,
          a \in BOOLEAN }
    \cup { [DefaultMedia EXCEPT !.opens = FALSE], [DefaultMedia EXCEPT !.filesize = 0] }

Environments ==
    { [fs |-> f, media |-> DefaultMedia] : f \in FileSystems }
    \cup { [fs |-> BasicFs, media |-> m] : m \in MediaKinds }

(***************************************************************************)
(* Inputs                                                                  *)
(***************************************************************************)
MethodInputs ==
    { <<"a", "u", "d", "i", "o">>, <<"c", "l", "i", "p">>,
      <<"f", "r", "a", "m", "e", "s">>, <<"g", "i", "f">>,
      <<"A", "U", "D", "I", "O">>, <<"C", "l", "i", "p">>,
      <<"f", "R", "a", "M", "e", "S">>, <<"g", "i", "F">>,
      EmptyStr, <<"a", "u", "d", "i">>, <<"g", "i", "f", "s">>,
      <<"v", "i", "d", "e", "o">>, <<"c", "l", "i", "p", " ">>,
      <<"f", "r", "a", "m", "e">>, <<"G", "I", "F", "F">> }

CanonicalMethodInputs ==
    { <<"a", "u", "d", "i", "o">>, <<"c", "l", "i", "p">>,
      <<"f", "r", "a", "m", "e", "s">>, <<"g", "i", "f">> }

Ts001 == <<"0", ":", "0", "1">>
Ts002 == <<"0", ":", "0", "2">>

TimeOptions ==
    { [NoOptions EXCEPT !["start_time"] = a, !["stop_time"] = b, !["fps"] = c] :
          a \in { None, Some(Num(0)), Some(Num(TicksPerSecond)),
                  Some(Num(0 - TicksPerSecond)), Some(Str(Ts001)) },
          b \in { None, Some(Num(TicksPerSecond)), Some(Num(1)), Some(Num(0)),
                  Some(Num(MaxSeconds * TicksPerSecond)), Some(Str(Ts002)) },
          c \in { None, Some(Num(3 * TicksPerSecond)) } }

DestOptions ==
    { [NoOptions EXCEPT !["destdir"] = d, !["filename"] = n, !["overwrite"] = o] :
          d \in {None, Some(OtherDir), Some(VideoFile)},
          n \in {None, Some(StemA)},
          o \in {None, Some(TRUE), Some(FALSE)} }

EditOptions ==
    { [NoOptions EXCEPT !["volume"] = x] :
          x \in {Some(Num(0)), Some(Num(1)), Some(Num(TicksPerSecond)),
                 Some(Str(<<"0", ".", "5">>)), Some(Num(0 - 1))} }
    \cup { [NoOptions EXCEPT !["audio_format"] = x] :
          x \in {Some(<<".", "W", "A", "V">>), Some(<<"w", "a", "v">>)} }
    \cup { [NoOptions EXCEPT !["capture_rate"] = x] : x \in {Some(Num(2 * TicksPerSecond))} }
    \cup { [NoOptions EXCEPT !["verbose"] = Some(TRUE)] }

\* a value for each option of the extraction methods
SampleOption(k) ==
    CASE k = "audio_format" -> <<"w", "a", "v">>
      [] k = "image_format" -> <<"p", "n", "g">>
      [] k = "capture_rate" -> Num(2 * TicksPerSecond)
      [] k = "dimensions" -> <<3, 3>>
      [] k = "resize" -> Num(1)
      [] k = "rotate" -> Num(90)
      [] k \in {"speed", "volume"} -> Num(2 * TicksPerSecond)
      [] k \in {"bounce", "reverse", "monochrome", "normalize"} -> TRUE

\* the keyword arguments that give any of the method's own options a value
SpecifiedOptions(method) ==
    { [k \in OptionFields |-> IF k \in given THEN Some(SampleOption(k)) ELSE None] :
          given \in SUBSET SpecificFields(method) }

\* the keyword arguments tried in an environment: the environment varies the
\* video or the existing paths, the arguments vary the matching options
OptionInputs(f, m) ==
    IF f # BasicFs THEN DestOptions
    ELSE IF m # DefaultMedia THEN TimeOptions
    ELSE TimeOptions \cup DestOptions \cup EditOptions

(***************************************************************************)
(* api.py, cli.py                                                          *)
(***************************************************************************)
\* the defaults in the signatures of extract_audio, extract_clip,
\* extract_frames and extract_gif
ApiDefaults(method) ==
    LET common == [NoOptions EXCEPT !["start_time"] = Some(Num(0)),
                                    !["verbose"] = Some(FALSE),
                                    !["overwrite"] = Some(FALSE)]
    IN  IF method = AUDIO
        THEN [common EXCEPT !["audio_format"] = Some(StrMp3), !["speed"] = Some(One),
                            !["bounce"] = Some(FALSE), !["reverse"] = Some(FALSE),
                            !["volume"] = Some(One), !["normalize"] = Some(FALSE)]
        ELSE IF method = CLIP
        THEN [common EXCEPT !["resize"] = Some(One), !["rotate"] = Some(Num(0)),
                            !["speed"] = Some(One), !["bounce"] = Some(FALSE),
                            !["reverse"] = Some(FALSE), !["monochrome"] = Some(FALSE),
                            !["volume"] = Some(Num(0)), !["normalize"] = Some(FALSE)]
        ELSE IF method = FRAMES
        THEN [common EXCEPT !["image_format"] = Some(StrJpg),
                            !["capture_rate"] = Some(One), !["resize"] = Some(One),
                            !["rotate"] = Some(Num(0)), !["monochrome"] = Some(FALSE)]
        ELSE [common EXCEPT !["resize"] = Some(One), !["rotate"] = Some(Num(0)),
                            !["speed"] = Some(One), !["bounce"] = Some(FALSE),
                            !["reverse"] = Some(FALSE), !["monochrome"] = Some(FALSE)]

\* the options dict extract_<method> builds from its arguments
ApiOptions(method, args) ==
    [k \in OptionFields |-> IF ~IsNone(args[k]) THEN args[k] ELSE ApiDefaults(method)[k]]

\* exception e leaves api.extract: cli.execute_extraction catches a
\* VideoXTError and returns exit code 1, every other caller sees e
Leave(op, e) ==
    IF op = "execute_extraction" /\ e \in VideoXTErrors
    THEN [exc |-> e, ret |-> Some(1)]
    ELSE [exc |-> e, ret |-> None]

\* api.extract(method, filepath, skip_validation, **options), called directly
\* or by cli.execute_extraction (skip_validation=True): the method lookup
Extract(op, method, args, skip_validation) ==
    /\ pc = "idle"
    /\ call' = Some([op |-> op, method |-> method, args |-> args,
                     skip_validation |-> skip_validation])
    /\ LET method_enum == EnumLookup(Upper(method))
       IN  IF method_enum.exc # "none"
           THEN /\ pc' = "done"
                /\ handler' = None
                /\ exc' = Leave(op, "InvalidExtractionMethod").exc
                /\ ret' = Leave(op, "InvalidExtractionMethod").ret
           ELSE /\ pc' = "execute"
                /\ handler' = Some([method |-> method_enum.value,
                                    options |-> Some(args),
                                    skip_validation |-> skip_validation])
                /\ UNCHANGED <<exc, ret>>
    /\ UNCHANGED <<fs, media, video, request, made, result, capture, locals>>

\* api.extract_audio / extract_clip / extract_frames / extract_gif
ExtractMethod(m, args) ==
    /\ pc = "idle"
    /\ call' = Some([op |-> "extract_" \o m, method |-> EmptyStr, args |-> args,
                     skip_validation |-> FALSE])
    /\ handler' = Some([method |-> m, options |-> Some(ApiOptions(m, args)),
                        skip_validation |-> FALSE])
    /\ pc' = "execute"
    /\ UNCHANGED <<fs, media, video, request, made, result, exc, ret, capture, locals>>

\* ExtractionHandler.execute up to the call of _perform_extraction
Execute ==
    /\ pc = "execute"
    /\ \E h \in {Val(handler)}, v \in {make_video(fs, media, VideoFile)} :
           IF v.exc # "none"
           THEN /\ pc' = "done"
                /\ exc' = Leave(Val(call).op, v.exc).exc
                /\ ret' = Leave(Val(call).op, v.exc).ret
                /\ UNCHANGED <<video, request, made, result>>
           ELSE \E r \in {make_prepared_request(h.method, fs, v.v, h.options,
                                                h.skip_validation)} :
                    /\ video' = Some(v.v)
                    /\ request' = IF IsNone(r.req) THEN None ELSE Some(r.req)
                    /\ IF r.exc # "none"
                       THEN /\ pc' = "done"
                            /\ made' = {"video"}
                            /\ exc' = Leave(Val(call).op, r.exc).exc
                            /\ ret' = Leave(Val(call).op, r.exc).ret
                            /\ UNCHANGED result
                       ELSE /\ pc' = "extracting"
                            /\ made' = {"video", "request", "extractor", "result"}
                            /\ result' = Some(make_result(h.method))
                            /\ UNCHANGED <<exc, ret>>
    /\ UNCHANGED <<call, fs, media, handler, capture, locals>>

\* the exit code cli.execute_extraction returns when api.extract returns
ExitCode(res) == 0

\* a handler that reports every extraction as successful
SetOutcomeSuccessful(r, outcome) ==
    [r EXCEPT !.success = Some(TRUE), !.message = Some("Extraction successful.")]

\* the except / else clauses of ExtractionHandler._perform_extraction
SetOutcome(r, outcome) ==
    IF outcome = "KeyboardInterrupt"
    THEN [r EXCEPT !.success = Some(FALSE), !.message = Some("Extraction cancelled.")]
    ELSE IF outcome = "VideoXTError"
    THEN [r EXCEPT !.success = Some(FALSE),
                   !.message = Some("Extraction failed: " \o "<error>")]
    ELSE [r EXCEPT !.success = Some(TRUE), !.message = Some("Extraction successful.")]

\* ExtractionHandler._perform_extraction and the return to the caller;
\* wrote: whether the extractor left something at the destination path
PerformExtraction(outcome, wrote) ==
    /\ pc = "extracting"
    /\ LET dest == Val(Val(request)["destpath"])
           fs1 == IF ~wrote THEN fs
                  ELSE IF Val(handler).method = FRAMES
                       THEN [fs EXCEPT !.dirs = @ \cup {dest}]
                       ELSE [fs EXCEPT !.files = @ \cup {dest}]
           r1 == SetOutcome(Val(result), outcome)
           r2 == IF Exists(fs1, dest) THEN [r1 EXCEPT !.destpath = Some(dest)] ELSE r1
           r3 == [r2 EXCEPT !.elapsed_time = Some("elapsed")]
       IN  /\ fs' = fs1
           /\ result' = Some(r3)
           /\ ret' = IF Val(call).op = "execute_extraction" THEN Some(ExitCode(r3))
                     ELSE Some(r3)
    /\ pc' = "done"
    /\ UNCHANGED <<call, media, handler, video, request, made, exc, capture, locals>>

(***************************************************************************)
(* Direct calls of the preparers                                           *)
(***************************************************************************)
Call_prepare_destpath(filename, destdir, suffix, overwrite) ==
    /\ pc = "idle"
    /\ call' = Some([op |-> "prepare_destpath", filename |-> filename,
                     destdir |-> destdir, suffix |-> suffix, overwrite |-> overwrite])
    /\ LET r == prepare_destpath(fs, VideoFile, filename, destdir, suffix, overwrite)
       IN  /\ exc' = r.exc
           /\ ret' = IF r.exc = "none" THEN Some(r.v) ELSE None
    /\ pc' = "done"
    /\ UNCHANGED <<fs, media, handler, video, request, made, result, capture, locals>>

Call_prepare_destpath_frames(destdir, overwrite) ==
    /\ pc = "idle"
    /\ call' = Some([op |-> "prepare_destpath_frames", destdir |-> destdir,
                     overwrite |-> overwrite])
    /\ LET r == prepare_destpath_frames(fs, VideoFile, destdir, overwrite)
       IN  /\ exc' = r.exc
           /\ ret' = IF r.exc = "none" THEN Some(r.v) ELSE None
    /\ pc' = "done"
    /\ UNCHANGED <<fs, media, handler, video, request, made, result, capture, locals>>

\* times in seconds (floats in ticks) or timestamps
TimeInputs ==
    {None}
    \cup {Some(Num(t)) : t \in (0 - TicksPerSecond)..(MaxSeconds * TicksPerSecond + 1)}
    \cup {Some(Str(Ts001)), Some(Str(Ts002)), Some(Str(<<"2">>))}

\* a Video has frame_count > 0 and fps > 0, so its duration is positive
DurationInputs == 1..(MaxSeconds * TicksPerSecond)

\* preppers.prepare_extraction_range, which constructs an ExtractionRange
Call_prepare_extraction_range(duration_seconds, frame_count, start_time, stop_time, fps) ==
    /\ pc = "idle"
    /\ call' = Some([op |-> "prepare_extraction_range",
                     duration_seconds |-> duration_seconds, frame_count |-> frame_count,
                     start_time |-> start_time, stop_time |-> stop_time, fps |-> fps])
    /\ LET r == prepare_extraction_range(duration_seconds, frame_count, start_time,
                                         stop_time, fps)
       IN  /\ exc' = r.exc
           /\ ret' = Some(r.range)
    /\ pc' = "done"
    /\ UNCHANGED <<fs, media, handler, video, request, made, result, capture, locals>>

\* the arguments of the usage example in the docstring of ExtractionRange: a
\* video of 20 seconds and 600 frames at 30 fps, and the times 10 and 0
UsageDuration == 20 * TicksPerSecond
UsageFrameCount == 600
UsageFps == Num(30 * TicksPerSecond)
UsageTimes == {Num(0), Num(10 * TicksPerSecond)}

\* ExtractionRange(duration_seconds, frame_count, start_time, stop_time, fps)
Call_ExtractionRange(duration_seconds, frame_count, start_time, stop_time, fps) ==
    /\ pc = "idle"
    /\ call' = Some([op |-> "ExtractionRange",
                     duration_seconds |-> duration_seconds, frame_count |-> frame_count,
                     start_time |-> start_time, stop_time |-> stop_time, fps |-> fps])
    /\ \E r \in {ExtractionRange(duration_seconds, frame_count, start_time, stop_time, fps)} :
           /\ exc' = r.exc
           /\ ret' = Some(r.range)
    /\ pc' = "done"
    /\ UNCHANGED <<fs, media, handler, video, request, made, result, capture, locals>>

(***************************************************************************)
(* video.py: the context manager open_video_capture, step by step          *)
(***************************************************************************)
\* a capture that is never released
ReleaseSkipped(cap) == cap

\* cv2.VideoCapture.release()
Release(cap) == [cap EXCEPT !.opened = FALSE, !.released = @ + 1]

\* where cv2 raises cv2.error while the capture is opened, if it does
OpenErrors == {"none", "VideoCapture", "isOpened"}

\* how the body of the with statement ends
BodyOutcomes == {"none", "Exception", "cv2.error", "KeyboardInterrupt"}

\* with open_video_capture(filepath) as opencap: the try, except and else
\* clauses up to the yield; caller is the function that holds the with
OpenVideoCapture_enter(caller, error) ==
    /\ pc = "idle"
    /\ call' = Some([op |-> caller, error |-> error])
    /\ capture' = IF error = "VideoCapture" THEN None
                  ELSE Some([opened |-> media.opens /\ error = "none", released |-> 0,
                             position |-> 0])
    /\ IF error # "none" \/ ~media.opens
       THEN /\ locals' = Some([yielded |-> FALSE, raised |-> "ClosedVideoCaptureError"])
            /\ pc' = "finally"
       ELSE /\ locals' = Some([yielded |-> TRUE, raised |-> "none"])
            /\ pc' = "with_body"
    /\ UNCHANGED <<fs, media, handler, video, request, made, result, exc, ret>>

\* the body of the with statement runs and ends; an exception of the body is
\* thrown into the generator at the yield, where no except clause applies
WithBody(outcome) ==
    /\ pc = "with_body"
    \* the body of fetch_video_properties reads four properties with get()
    /\ Val(call).op = "fetch_video_properties" => outcome = "none"
    /\ locals' = Some([Val(locals) EXCEPT !.raised = outcome])
    /\ pc' = "finally"
    /\ UNCHANGED <<call, fs, media, handler, video, request, made, result, exc, ret,
                   capture>>

\* the finally clause, and the return or the exception that leaves the with
\* statement; fetch_video_properties returns what it read in the body
OpenVideoCapture_finally ==
    /\ pc = "finally"
    \* video_capture.release(), or UnboundLocalError caught when it was never bound
    /\ capture' = IF IsNone(capture) THEN None ELSE Some(Release(Val(capture)))
    /\ exc' = Val(locals).raised
    /\ ret' = IF Val(locals).raised = "none" /\ Val(call).op = "fetch_video_properties"
              THEN Some([dimensions |-> media.dimensions, fps |-> media.fps,
                         frame_count |-> media.frame_count])
              ELSE None
    /\ pc' = "done"
    /\ UNCHANGED <<call, fs, media, handler, video, request, made, result, locals>>

(***************************************************************************)
(* extractors.py: VideoToImages.extract_images, one read of the loop at a  *)
(* time; the images written are recorded by the frame they hold            *)
(***************************************************************************)
\* VideoToImages._set_images_expected, for int frame numbers
SetImagesExpected(start_frame, stop_frame, capture_rate) ==
    (stop_frame - start_frame + capture_rate - 1) \div capture_rate

\* extract_images up to the loop: the capture is created and positioned at
\* the start frame; readable: the frames of the file that can be decoded
ExtractImages_open(start_frame, stop_frame, capture_rate, readable) ==
    /\ pc = "idle"
    /\ call' = Some([op |-> "extract_images", start_frame |-> start_frame,
                     stop_frame |-> stop_frame, capture_rate |-> capture_rate,
                     images_expected |->
                         SetImagesExpected(start_frame, stop_frame, capture_rate),
                     readable |-> readable])
    /\ capture' = Some([opened |-> media.opens, released |-> 0, position |-> start_frame])
    /\ locals' = Some([frame_position |-> start_frame, images_written |-> 1,
                       reads |-> <<>>, written |-> <<>>])
    /\ pc' = "loop"
    /\ UNCHANGED <<fs, media, handler, video, request, made, result, exc, ret>>

\* one test of `while video_capture.isOpened()` and one pass of its body
ExtractImages_read ==
    /\ pc = "loop"
    /\ IF ~Val(capture).opened
       THEN /\ pc' = "report"
            /\ UNCHANGED <<capture, locals>>
       ELSE \E position \in {Val(capture).position}, l \in {Val(locals)} :
            IF position >= Val(call).readable
            \* the read failed
            THEN /\ capture' = Some(Release(Val(capture)))
                 /\ locals' = Some([l EXCEPT !.reads = Append(@, position)])
                 /\ pc' = "report"
            ELSE IF Val(call).images_expected = l.images_written
            THEN /\ capture' = Some(Release([Val(capture) EXCEPT !.position = position + 1]))
                 /\ locals' = Some([l EXCEPT
                        !.reads = Append(@, position),
                        !.written = Append(@, [frame |-> position,
                                               number |-> l.frame_position + 1])])
                 /\ pc' = "report"
            ELSE /\ capture' = Some([Val(capture) EXCEPT !.position =
                        IF Val(call).capture_rate # 1
                        THEN l.frame_position + Val(call).capture_rate
                        ELSE position + 1])
                 /\ locals' = Some([l EXCEPT
                        !.reads = Append(@, position),
                        !.written = Append(@, [frame |-> position,
                                               number |-> l.frame_position + 1]),
                        !.frame_position = @ + Val(call).capture_rate,
                        !.images_written = @ + 1])
                 /\ pc' = "loop"
    /\ UNCHANGED <<call, fs, media, handler, video, request, made, result, exc, ret>>

\* the print after the loop: ret is the number of images it reports as saved
ExtractImages_report ==
    /\ pc = "report"
    /\ ret' = Some(Val(locals).images_written)
    /\ pc' = "done"
    /\ UNCHANGED <<call, fs, media, handler, video, request, made, result, exc, capture,
                   locals>>

(***************************************************************************)
(* Direct calls of the utilities                                           *)
(***************************************************************************)
\* the video file and the other directory, plus any of the names an
\* enumeration without a tag gives them
UntaggedFileSystems ==
    { [files |-> {VideoFile} \cup files, dirs |-> {VideoDir, OtherDir} \cup dirs] :
          files \in SUBSET (FileFamily(VideoFile, None, MaxExisting) \ {VideoFile}),
          dirs \in SUBSET (DirFamily(OtherDir, None, MaxExisting) \ {OtherDir}) }

NewFile == PathJoin(VideoDir, <<"n", ".", "t", "x", "t">>)

Call_enumerate_filepath(filepath, tag) ==
    /\ pc = "idle"
    /\ call' = Some([op |-> "enumerate_filepath", path |-> filepath, tag |-> tag])
    /\ exc' = enumerate_filepath(fs, filepath, tag).exc
    /\ ret' = IF enumerate_filepath(fs, filepath, tag).exc = "none"
              THEN Some(enumerate_filepath(fs, filepath, tag).v) ELSE None
    /\ pc' = "done"
    /\ UNCHANGED <<fs, media, handler, video, request, made, result, capture, locals>>

Call_enumerate_dir(directory, tag) ==
    /\ pc = "idle"
    /\ call' = Some([op |-> "enumerate_dir", path |-> directory, tag |-> tag])
    /\ exc' = enumerate_dir(fs, directory, tag).exc
    /\ ret' = IF enumerate_dir(fs, directory, tag).exc = "none"
              THEN Some(enumerate_dir(fs, directory, tag).v) ELSE None
    /\ pc' = "done"
    /\ UNCHANGED <<fs, media, handler, video, request, made, result, capture, locals>>

(***************************************************************************)
(* editors.py: a clip is the list of the effects applied to the source     *)
(* video, each with the argument the library was handed                    *)
(***************************************************************************)
SourceClip == [effects |-> <<>>]

\* clip.fx(effect), clip.volumex(x), clip.resize(x), clip.rotate(x)
ApplyEffect(clip, effect, arg) ==
    [effects |-> Append(clip.effects, [fx |-> effect, arg |-> arg])]

ApplyEffectIf(cond, clip, effect, arg) ==
    IF cond THEN ApplyEffect(clip, effect, arg) ELSE clip

edit_clip_audio(clip, volume, normalize) ==
    ApplyEffectIf(volume # Some(TicksPerSecond),
                  ApplyEffectIf(normalize = Some(TRUE), clip, "audio_normalize", None),
                  "volumex", volume)

edit_clip_image(clip, dimensions, rotate, monochrome) ==
    ApplyEffectIf(monochrome = Some(TRUE),
                  ApplyEffectIf(rotate # Some(0),
                                ApplyEffectIf(~IsNone(dimensions), clip, "resize", dimensions),
                                "rotate", rotate),
                  "blackwhite", None)

edit_clip_motion(clip, speed, reverse, bounce) ==
    ApplyEffectIf(speed # Some(TicksPerSecond),
                  ApplyEffectIf(bounce = Some(TRUE),
                                ApplyEffectIf(reverse = Some(TRUE), clip, "time_mirror", None),
                                "time_symmetrize", None),
                  "speedx", speed)

\* the library was handed None where it computes with a number: it raises
\* at the call or returns a clip carrying the effect
HandedNone(clip) ==
    \E i \in DOMAIN clip.effects :
        /\ clip.effects[i].fx \in {"volumex", "rotate", "speedx"}
        /\ IsNone(clip.effects[i].arg)

FlagInputs == {None, Some(FALSE), Some(TRUE)}
FactorInputs == {None} \cup { Some(t) : t \in 1..(2 * TicksPerSecond) }

Call_edit_clip_audio(volume, normalize, raises) ==
    /\ pc = "idle"
    /\ raises => HandedNone(edit_clip_audio(SourceClip, volume, normalize))
    /\ call' = Some([op |-> "edit_clip_audio", volume |-> volume, normalize |-> normalize])
    /\ exc' = IF raises THEN "TypeError" ELSE "none"
    /\ ret' = IF raises THEN None ELSE Some(edit_clip_audio(SourceClip, volume, normalize))
    /\ pc' = "done"
    /\ UNCHANGED <<fs, media, handler, video, request, made, result, capture, locals>>

Call_edit_clip_image(dimensions, rotate, monochrome, raises) ==
    /\ pc = "idle"
    /\ raises => HandedNone(edit_clip_image(SourceClip, dimensions, rotate, monochrome))
    /\ call' = Some([op |-> "edit_clip_image", dimensions |-> dimensions,
                     rotate |-> rotate, monochrome |-> monochrome])
    /\ exc' = IF raises THEN "TypeError" ELSE "none"
    /\ ret' = IF raises THEN None
              ELSE Some(edit_clip_image(SourceClip, dimensions, rotate, monochrome))
    /\ pc' = "done"
    /\ UNCHANGED <<fs, media, handler, video, request, made, result, capture, locals>>

Call_edit_clip_motion(speed, reverse, bounce, raises) ==
    /\ pc = "idle"
    /\ raises => HandedNone(edit_clip_motion(SourceClip, speed, reverse, bounce))
    /\ call' = Some([op |-> "edit_clip_motion", speed |-> speed,
                     reverse |-> reverse, bounce |-> bounce])
    /\ exc' = IF raises THEN "TypeError" ELSE "none"
    /\ ret' = IF raises THEN None ELSE Some(edit_clip_motion(SourceClip, speed, reverse, bounce))
    /\ pc' = "done"
    /\ UNCHANGED <<fs, media, handler, video, request, made, result, capture, locals>>

(***************************************************************************)
(* Direct calls of the validators                                          *)
(***************************************************************************)
\* strings tried as timestamps: the four forms, with and without a fraction,
\* and strings that miss them by one character, one component or one unit
TimestampInputs ==
    { <<"0", ":", "0", "0">>, Ts001, <<"1", ":", "0", "0">>, <<"9", ":", "5", "9">>,
      <<"0", "0", ":", "0", "1">>, <<"5", "9", ":", "5", "9">>,
      <<"0", ":", "0", "0", ":", "0", "0">>, <<"1", ":", "0", "0", ":", "0", "0">>,
      <<"0", "0", ":", "0", "0", ":", "0", "1">>, <<"5", "9", ":", "5", "9", ":", "5", "9">>,
      <<"0", ":", "0", "0", ".", "9">>, <<"0", ":", "0", "1", ".", "5">>,
      <<"0", ":", "0", "0", ":", "0", "0", ".", "0">>, <<"0", ":", "0", "1", ".">>,
      <<"0", ":", "0", "1", ".", "5", ".", "3">>,
      EmptyStr, <<"5">>, <<"0", "5">>, <<"1", ":", "0", ":", "0">>, <<"0", ":", "1">>,
      <<"6", "0", ":", "0", "0", ":", "0", "0">>, <<"0", "0", ":", "6", "0", ":", "0", "0">>,
      <<"0", "0", ":", "0", "0", ":", "6", "0">>, <<"0", ":", "6", "0">>,
      <<"6", "0", ":", "0", "0">>, <<"1", "0", "0", ":", "0", "0">>,
      <<"0", ":", "0", "0", ":", "0", "0", ":", "0", "0">>, <<":", "0", "1">>,
      <<"0", ":", "0", "1", ":">>, <<"0", ":", "0", "x">>, <<"x">>, <<".", "0", ":", "0", "1">>,
      <<"0", ":", "0", "1", " ">>, <<" ", "0", ":", "0", "1">>,
      <<"0", ":", "0", "1", "\n">>, <<"0", ":", "0", "1", "\n", "\n">>,
      <<"\n", "0", ":", "0", "1">>, <<"-", "0", ":", "0", "1">> }

\* numbers given as strings
NumberStrings ==
    { <<"0">>, <<"0", ".", "0">>, <<"1">>, <<"0", ".", "5">>, <<"1", ".", "5">>,
      <<"6", "0">>, <<"-", "1">>, <<"-", "1", ".", "0">>, <<"-", "0", ".", "5">>,
      <<" ", "1">>, <<"1", "\n">> }

\* start and stop times: numbers, numeric strings and timestamps
TimeValueInputs ==
    {Num(t) : t \in (0 - TicksPerSecond)..(MaxSeconds * TicksPerSecond)}
    \cup {Str(s) : s \in NumberStrings \cup TimestampInputs}

Call_valid_timestamp(timestamp) ==
    /\ pc = "idle"
    /\ call' = Some([op |-> "valid_timestamp", timestamp |-> timestamp])
    /\ exc' = valid_timestamp(timestamp).exc
    /\ ret' = IF valid_timestamp(timestamp).exc = "none"
              THEN Some(valid_timestamp(timestamp).v) ELSE None
    /\ pc' = "done"
    /\ UNCHANGED <<fs, media, handler, video, request, made, result, capture, locals>>

Call_valid_start_time(start_time) ==
    /\ pc = "idle"
    /\ call' = Some([op |-> "valid_start_time", time |-> start_time])
    /\ exc' = valid_start_time(start_time).exc
    /\ ret' = IF valid_start_time(start_time).exc = "none"
              THEN Some(valid_start_time(start_time).v) ELSE None
    /\ pc' = "done"
    /\ UNCHANGED <<fs, media, handler, video, request, made, result, capture, locals>>

Call_valid_stop_time(stop_time) ==
    /\ pc = "idle"
    /\ call' = Some([op |-> "valid_stop_time", time |-> stop_time])
    /\ exc' = valid_stop_time(stop_time).exc
    /\ ret' = IF valid_stop_time(stop_time).exc = "none"
              THEN Some(valid_stop_time(stop_time).v) ELSE None
    /\ pc' = "done"
    /\ UNCHANGED <<fs, media, handler, video, request, made, result, capture, locals>>

\* rotate values: whole and non-whole numbers around the four angles, and strings
RotateInputs ==
    {Num(r * TicksPerSecond + d) : r \in {0 - 90, 0, 45, 90, 180, 270, 360}, d \in {0, 1}}
    \cup {Str(s) : s \in { <<"0">>, <<"9", "0">>, <<"1", "8", "0">>, <<"2", "7", "0">>,
                           <<"3", "6", "0">>, <<"4", "5">>, <<"-", "9", "0">>,
                           <<"0", ".", "1">>, <<"9", "0", ".", "5">>, <<"9", "0", ".", "0">>,
                           <<"x">>, EmptyStr, <<" ", "9", "0">> }}

Call_valid_rotate_value(n) ==
    /\ pc = "idle"
    /\ call' = Some([op |-> "valid_rotate_value", n |-> n])
    /\ exc' = valid_rotate_value(n).exc
    /\ ret' = IF valid_rotate_value(n).exc = "none" THEN Some(valid_rotate_value(n).v)
              ELSE None
    /\ pc' = "done"
    /\ UNCHANGED <<fs, media, handler, video, request, made, result, capture, locals>>

\* preppers.prepare_images_expected; capture_rate is an int
Call_prepare_images_expected(start_frame, stop_frame, capture_rate) ==
    /\ pc = "idle"
    /\ call' = Some([op |-> "prepare_images_expected", start_frame |-> start_frame,
                     stop_frame |-> stop_frame, capture_rate |-> capture_rate])
    /\ \E r \in {prepare_images_expected(start_frame, stop_frame,
                       IF IsNone(capture_rate) THEN None
                       ELSE Some(Val(capture_rate) * TicksPerSecond))} :
           /\ exc' = r.exc
           /\ ret' = IF r.exc = "none" THEN Some(r.v) ELSE None
    /\ pc' = "done"
    /\ UNCHANGED <<fs, media, handler, video, request, made, result, capture, locals>>

\* preppers.prepare_dimensions; request_resize is a float in ticks
Call_prepare_dimensions(video_dimensions, request_dimensions, request_resize) ==
    /\ pc = "idle"
    /\ call' = Some([op |-> "prepare_dimensions", video_dimensions |-> video_dimensions,
                     request_dimensions |-> request_dimensions,
                     request_resize |-> request_resize])
    /\ exc' = "none"
    /\ ret' = Some(prepare_dimensions(video_dimensions, request_dimensions, request_resize))
    /\ pc' = "done"
    /\ UNCHANGED <<fs, media, handler, video, request, made, result, capture, locals>>

(***************************************************************************)
(* Direct use of the request objects                                       *)
(***************************************************************************)
\* <Method>Request.prepare(video) on the request state st, after a call of
\* validate() or without one
Request_prepare(method, f, v, st, validate_first) ==
    Then(FromValidated(RunValidation(IF validate_first THEN <<"validate", "prepare">>
                                     ELSE <<"prepare">>, method, f, st)),
         LAMBDA validated : Prepare(method, f, v, validated))

\* <Method>Request(**options).prepare(video), with or without a call of
\* validate() before it
Call_Request_prepare(method, options, validate_first) ==
    /\ pc = "idle"
    /\ call' = Some([op |-> "Request.prepare", method |-> method, args |-> options,
                     validate_first |-> validate_first])
    /\ \E v \in {make_video(fs, media, VideoFile)} :
           /\ v.exc = "none"
           /\ \E new \in {NewRequest(method, options)} :
              /\ new.exc = "none"
              /\ \E r \in {Request_prepare(method, fs, v.v, new, validate_first)} :
                  /\ video' = Some(v.v)
                  /\ request' = IF IsNone(r.req) THEN None ELSE Some(r.req)
                  /\ exc' = r.exc
                  /\ ret' = IF r.exc = "none" THEN Some(r.req) ELSE None
    /\ pc' = "done"
    /\ UNCHANGED <<fs, media, handler, made, result, capture, locals>>

\* request.is_validated read on a new request, or after a call of validate()
\* whose exception, if any, the caller caught
Call_is_validated(method, options, validate_first) ==
    /\ pc = "idle"
    /\ \E new \in {NewRequest(method, options)} :
           /\ new.exc = "none"
           /\ \E st \in {IF validate_first THEN Validate(method, fs, new) ELSE new} :
                  /\ call' = Some([op |-> "is_validated", method |-> method,
                                   args |-> options, validate_first |-> validate_first,
                                   completed |-> validate_first /\ st.exc = "none"])
                  /\ request' = Some(st.req)
                  /\ exc' = is_validated(st.req).exc
                  /\ ret' = IF is_validated(st.req).exc = "none"
                            THEN Some(is_validated(st.req).v) ELSE None
    /\ pc' = "done"
    /\ UNCHANGED <<fs, media, handler, video, made, result, capture, locals>>

\* prepared_request.is_prepared read on a new prepared request, or after a
\* call of prepare() whose exception, if any, the caller caught
Call_is_prepared(method, options, prepare_first) ==
    /\ pc = "idle"
    /\ \E v \in {make_video(fs, media, VideoFile)}, new \in {NewRequest(method, options)} :
           /\ v.exc = "none"
           /\ new.exc = "none"
           /\ \E st \in {IF prepare_first THEN Prepare(method, fs, v.v, new) ELSE new} :
                  /\ call' = Some([op |-> "is_prepared", method |-> method,
                                   args |-> options, prepare_first |-> prepare_first,
                                   completed |-> prepare_first /\ st.exc = "none"])
                  /\ video' = Some(v.v)
                  /\ request' = Some(st.req)
                  /\ exc' = is_prepared(st.req).exc
                  /\ ret' = IF is_prepared(st.req).exc = "none"
                            THEN Some(is_prepared(st.req).v) ELSE None
    /\ pc' = "done"
    /\ UNCHANGED <<fs, media, handler, made, result, capture, locals>>

Init ==
    /\ pc = "idle"
    /\ call = None
    /\ \E env \in Environments : fs = env.fs /\ media = env.media
    /\ handler = None
    /\ video = None
    /\ request = None
    /\ made = {}
    /\ result = None
    /\ exc = "none"
    /\ ret = None
    /\ capture = None
    /\ locals = None

Next ==
    \/ \E method \in MethodInputs, skip \in BOOLEAN :
          Extract("extract", method, NoOptions, skip)
    \/ \E method \in CanonicalMethodInputs, args \in OptionInputs(fs, media),
          skip \in BOOLEAN :
          Extract("extract", method, args, skip)
    \/ \E method \in MethodInputs : Extract("execute_extraction", method, NoOptions, TRUE)
    \/ \E method \in CanonicalMethodInputs, args \in OptionInputs(fs, media) :
          Extract("execute_extraction", method, args, TRUE)
    \/ \E m \in MethodValues, args \in OptionInputs(fs, media) : ExtractMethod(m, args)
    \/ Execute
    \/ \E outcome \in ExtractOutcomes, wrote \in BOOLEAN : PerformExtraction(outcome, wrote)
    \/ \E filename \in {None, Some(StemA), Some(EmptyStr)},
          destdir \in {None, Some(OtherDir)},
          suffix \in {None, Some(SuffixMp4), Some(StrMp3), Some(SuffixGif)},
          overwrite \in {None, Some(TRUE), Some(FALSE)} :
          Call_prepare_destpath(filename, destdir, suffix, overwrite)
    \/ \E destdir \in {None, Some(OtherDir), Some(VideoFile)},
          overwrite \in {None, Some(TRUE), Some(FALSE)} :
          Call_prepare_destpath_frames(destdir, overwrite)

Spec == Init /\ [][Next]_vars

(***************************************************************************)
(* The extraction range on its own: every start, stop and duration         *)
(***************************************************************************)
InitRange ==
    /\ pc = "idle"
    /\ call = None
    /\ fs = BasicFs
    /\ media = DefaultMedia
    /\ handler = None
    /\ video = None
    /\ request = None
    /\ made = {}
    /\ result = None
    /\ exc = "none"
    /\ ret = None
    /\ capture = None
    /\ locals = None

NextRange ==
    \/ \E duration_seconds \in DurationInputs, start_time \in TimeInputs,
          stop_time \in TimeInputs,
          fps \in {None, Some(Num(2 * TicksPerSecond)), Some(Num(TicksPerSecond + 1))} :
          Call_prepare_extraction_range(duration_seconds, MaxFrameCount, start_time,
                                        stop_time, fps)
    \/ \E start_time \in UsageTimes, stop_time \in UsageTimes :
          Call_ExtractionRange(UsageDuration, UsageFrameCount, start_time, stop_time,
                               UsageFps)

SpecRange == InitRange /\ [][NextRange]_vars

(***************************************************************************)
(* The request objects and the validators, preparers and utilities called  *)
(* directly                                                                *)
(***************************************************************************)
InitCalls ==
    /\ pc = "idle"
    /\ call = None
    /\ \/ \E env \in Environments : fs = env.fs /\ media = env.media
       \/ fs \in UntaggedFileSystems /\ media = DefaultMedia
    /\ handler = None
    /\ video = None
    /\ request = None
    /\ made = {}
    /\ result = None
    /\ exc = "none"
    /\ ret = None
    /\ capture = None
    /\ locals = None

NextCalls ==
    \/ \E method \in MethodValues, options \in OptionInputs(fs, media),
          validate_first \in BOOLEAN :
          Call_Request_prepare(method, options, validate_first)
    \/ \E n \in RotateInputs : Call_valid_rotate_value(n)
    \/ \E start_frame \in {None} \cup {Some(n) : n \in 0..1},
          stop_frame \in {None} \cup {Some(n) : n \in 0..MaxFrameCount},
          capture_rate \in {None} \cup {Some(n) : n \in (0 - 2)..3} :
          Call_prepare_images_expected(start_frame, stop_frame, capture_rate)
    \/ \E video_dimensions \in {<<4, 2>>, <<3, 5>>},
          request_dimensions \in {None, Some(<<3, 3>>), Some(<<1, 5>>)},
          request_resize \in {None} \cup {Some(t) : t \in (0 - 1)..(2 * TicksPerSecond)} :
          Call_prepare_dimensions(video_dimensions, request_dimensions, request_resize)
    \/ \E filepath \in {VideoFile, PathJoin(VideoDir, <<"v", ".", "m", "p", "3">>), NewFile},
          tag \in {None, Some(TagVxt)} :
          Call_enumerate_filepath(filepath, tag)
    \/ \E directory \in {VideoFile, OtherDir, NewFile}, tag \in {None, Some(TagFrames)} :
          Call_enumerate_dir(directory, tag)
    \/ \E volume \in FactorInputs, normalize \in FlagInputs, raises \in BOOLEAN :
          Call_edit_clip_audio(volume, normalize, raises)
    \/ \E dimensions \in {None, Some(<<3, 3>>)}, rotate \in {None, Some(0), Some(90)},
          monochrome \in FlagInputs, raises \in BOOLEAN :
          Call_edit_clip_image(dimensions, rotate, monochrome, raises)
    \/ \E speed \in FactorInputs, reverse \in FlagInputs, bounce \in FlagInputs,
          raises \in BOOLEAN :
          Call_edit_clip_motion(speed, reverse, bounce, raises)

SpecCalls == InitCalls /\ [][NextCalls]_vars

\* the video capture, opened, used and released step by step
NextCapture ==
    \/ \E error \in OpenErrors : OpenVideoCapture_enter("open_video_capture", error)
    \/ \E error \in OpenErrors : OpenVideoCapture_enter("fetch_video_properties", error)
    \/ \E outcome \in BodyOutcomes : WithBody(outcome)
    \/ OpenVideoCapture_finally
    \/ \E start_frame \in 0..(media.frame_count - 1), readable \in 0..media.frame_count :
       \E stop_frame \in (start_frame + 1)..media.frame_count :
       \* valid_capture_rate: no more than the number of frames to capture
       \E capture_rate \in 1..(stop_frame - start_frame) :
          ExtractImages_open(start_frame, stop_frame, capture_rate, readable)
    \/ ExtractImages_read
    \/ ExtractImages_report

SpecCapture == InitCalls /\ [][NextCapture]_vars

\* the validators of times, called directly
NextTimes ==
    \/ \E timestamp \in {None} \cup {Some(s) : s \in TimestampInputs \cup NumberStrings} :
          Call_valid_timestamp(timestamp)
    \/ \E start_time \in TimeValueInputs : Call_valid_start_time(start_time)
    \/ \E stop_time \in TimeValueInputs : Call_valid_stop_time(stop_time)

SpecTimes == InitCalls /\ [][NextTimes]_vars

\* the state flags of the request objects, read directly
NextState ==
    \/ \E method \in MethodValues, options \in OptionInputs(fs, media),
          validate_first \in BOOLEAN :
          Call_is_validated(method, options, validate_first)
    \/ \E method \in MethodValues, prepare_first \in BOOLEAN :
          \E options \in OptionInputs(fs, media)
                          \cup (IF fs = BasicFs /\ media = DefaultMedia
                                THEN SpecifiedOptions(method) ELSE {}) :
              Call_is_prepared(method, options, prepare_first)

SpecState == InitCalls /\ [][NextState]_vars

(***************************************************************************)
(* Properties: the entry points (api.py, cli.py)                           *)
(***************************************************************************)
\* C1: cli.execute_extraction returns 0 only for a run whose Result reports
\* success True, and 1 for every run in which the extraction did not succeed
C1_ExitCodeReflectsSuccess ==
    (pc = "done" /\ ~IsNone(call) /\ Val(call).op = "execute_extraction" /\ ~IsNone(ret))
        => /\ Val(ret) \in {0, 1}
           /\ Val(ret) = 0 <=> (~IsNone(result) /\ Val(result).success = Some(TRUE))

\* C2: extract_clip called without a volume prepares a request whose volume
\* is 1.0 (the original level), not 0
C2_ClipDefaultVolumeIsOne ==
    (/\ ~IsNone(call)
     /\ Val(call).op = "extract_clip"
     /\ IsNone(Val(call).args["volume"])
     /\ ~IsNone(request)
     /\ Val(request)["_is_prepared"] = Some(TRUE))
        => Val(request)["volume"] = Some(Num(TicksPerSecond))

\* C3: api.extract raises InvalidExtractionMethod, having created no Video,
\* request or extractor, exactly when the method is not one of audio, clip,
\* frames, gif compared without regard to case; otherwise it runs the handler
\* of exactly that method and returns the handler's Result
C3_MethodLookup ==
    (~IsNone(call) /\ Val(call).op = "extract") =>
        LET method == Lower(Val(call).method)
            chosen == IF method = <<"a", "u", "d", "i", "o">> THEN "audio"
                      ELSE IF method = <<"c", "l", "i", "p">> THEN "clip"
                      ELSE IF method = <<"f", "r", "a", "m", "e", "s">> THEN "frames"
                      ELSE IF method = <<"g", "i", "f">> THEN "gif"
                      ELSE "none"
        IN  IF chosen = "none"
            THEN /\ pc = "done"
                 /\ exc = "InvalidExtractionMethod"
                 /\ IsNone(ret)
                 /\ IsNone(handler) /\ IsNone(video) /\ IsNone(request) /\ IsNone(result)
                 /\ made = {}
            ELSE /\ exc # "InvalidExtractionMethod"
                 /\ ~IsNone(handler)
                 /\ Val(handler).method = chosen
                 /\ ~IsNone(result) => Val(result).method = Some(chosen)
                 /\ (pc = "done" /\ exc = "none") => (~IsNone(ret) /\ ret = result)

C3_Witness ==
    /\ pc = "done"
    /\ ~IsNone(call)
    /\ Val(call).op = "extract"
    /\ Val(call).method = <<"C", "l", "i", "p">>
    /\ ~IsNone(ret)
    /\ Val(ret).method = Some(CLIP)

(***************************************************************************)
(* Properties: the extraction range (preppers.py, validators.py)           *)
(***************************************************************************)
\* C4, as stated: the range fails with ValidationError exactly when
\* start >= duration or the capped stop <= start, succeeds in every other
\* case, and no timestamp or frame is computed before the error
C4_RangeFailsIffStartOrStopOutside ==
    (/\ pc = "done"
     /\ ~IsNone(call)
     /\ Val(call).op = "prepare_extraction_range"
     /\ exc # "PreparationError")
        => LET r == Val(ret)
               d == Val(call).duration_seconds
               start == Val(r.start_second)
               stop == Val(r.stop_second)
           IN  /\ exc \in {"none", "ValidationError"}
               /\ exc = "ValidationError" <=> (start >= d \/ stop <= start)
               /\ exc = "ValidationError" =>
                      /\ IsNone(r.start_timestamp) /\ IsNone(r.stop_timestamp)
                      /\ IsNone(r.start_frame) /\ IsNone(r.stop_frame)

\* C4, amended: a negative start counts as 0 in both comparisons; the range
\* fails with ValidationError exactly when max(start, 0) >= duration or the
\* capped stop <= max(start, 0), succeeds in every other case, and no
\* timestamp or frame is computed before the error
C4_RangeFailsIffClampedStartOrStopOutside ==
    (/\ pc = "done"
     /\ ~IsNone(call)
     /\ Val(call).op = "prepare_extraction_range"
     /\ exc # "PreparationError")
        => LET c == Val(call)
               r == Val(ret)
               d == c.duration_seconds
               given == Val(c.start_time)
               start == IF given.num THEN given.n ELSE Val(r.start_second)
               start0 == IF start < 0 THEN 0 ELSE start
               asked == Val(c.stop_time)
               stop == IF ~asked.num THEN Val(r.stop_second)
                       ELSE IF asked.n > d THEN d ELSE asked.n
           IN  /\ exc \in {"none", "ValidationError"}
               /\ exc = "ValidationError" <=> (start0 >= d \/ stop <= start0)
               /\ exc = "ValidationError" =>
                      /\ IsNone(r.start_timestamp) /\ IsNone(r.stop_timestamp)
                      /\ IsNone(r.start_frame) /\ IsNone(r.stop_frame)

C4_Witness ==
    /\ pc = "done"
    /\ ~IsNone(call)
    /\ Val(call).op = "prepare_extraction_range"
    /\ exc = "ValidationError"
    /\ Val(Val(ret).start_second) < 0
    /\ Val(Val(ret).stop_second) = 0
    /\ Val(call).duration_seconds > 0
    /\ IsNone(Val(ret).start_timestamp)
    /\ IsNone(Val(ret).start_frame)

\* C5: a stop time beyond the duration is not an error, it is replaced by
\* the duration; every successfully prepared range has stop_second <= duration
C5_StopCappedAtDuration ==
    (/\ pc = "done"
     /\ ~IsNone(call)
     /\ Val(call).op = "prepare_extraction_range"
     /\ exc # "PreparationError")
        => LET c == Val(call)
               r == Val(ret)
               d == c.duration_seconds
               asked == Val(c.stop_time)
           IN  /\ exc = "none" => Val(r.stop_second) <= d
               /\ (asked.num /\ asked.n > d) =>
                      /\ r.stop_second = Some(d)
                      /\ Val(r.start_second) < d => exc = "none"

C5_Witness ==
    /\ pc = "done"
    /\ ~IsNone(call)
    /\ Val(call).op = "prepare_extraction_range"
    /\ exc = "none"
    /\ Val(Val(call).stop_time).num
    /\ Val(Val(call).stop_time).n > Val(call).duration_seconds
    /\ Val(ret).stop_second = Some(Val(call).duration_seconds)
    /\ ~IsNone(Val(ret).stop_frame)

C7_DestpathIsFresh ==
    /\ (/\ pc = "extracting"
        /\ Val(handler).method \in {AUDIO, CLIP, GIF}
        /\ Val(request)["overwrite"] # Some(TRUE))
           => ~Exists(fs, Val(Val(request)["destpath"]))
    /\ (/\ pc = "done"
        /\ ~IsNone(call)
        /\ Val(call).op = "prepare_destpath"
        /\ Val(call).overwrite # Some(TRUE)
        /\ ~IsNone(Val(call).suffix))
           => LET c == Val(call)
                  dir == IF IsNone(c.destdir) THEN VideoDir ELSE Val(c.destdir)
                  stem == IF IsNone(c.filename) \/ Val(c.filename) = EmptyStr
                          THEN <<"v">> ELSE Val(c.filename)
                  suffix == IF Val(c.suffix)[1] = "." THEN Val(c.suffix)
                            ELSE <<".">> \o Val(c.suffix)
                  plain == Append(dir, stem \o suffix)
              IN  /\ exc = "none"
                  /\ ~Exists(fs, Val(ret))
                  /\ \/ Val(ret) = plain
                     \/ /\ Exists(fs, plain)
                        /\ PathParent(Val(ret)) = dir
                        /\ StartsWith(PathName(Val(ret)), stem \o TagVxt)
                        /\ PathSuffix(Val(ret)) = suffix

C7_Witness ==
    /\ pc = "extracting"
    /\ Val(handler).method = CLIP
    /\ Val(request)["overwrite"] # Some(TRUE)
    /\ Exists(fs, PathJoin(VideoDir, <<"v", "_", "v", "x", "t", ".", "m", "p", "4">>))
    /\ Val(request)["destpath"] =
           Some(PathJoin(VideoDir, <<"v", "_", "v", "x", "t", " ", "(", "2", ")",
                                     ".", "m", "p", "4">>))

\* C8: with overwrite True the destination path of an audio, clip or gif
\* request is exactly (destdir or the video's directory) / ((filename or the
\* video's stem) + the suffix with its leading "."), whether or not it exists,
\* provided it is not the video's own path; a None suffix is a PreparationError
C8_OverwriteKeepsPlainName ==
    /\ (/\ pc = "done"
        /\ ~IsNone(call)
        /\ Val(call).op = "prepare_destpath")
           => LET c == Val(call)
              IN  IF IsNone(c.suffix) THEN exc = "PreparationError" /\ IsNone(ret)
                  ELSE LET dir == IF IsNone(c.destdir) THEN VideoDir ELSE Val(c.destdir)
                           stem == IF IsNone(c.filename) \/ Val(c.filename) = EmptyStr
                                   THEN <<"v">> ELSE Val(c.filename)
                           suffix == IF Val(c.suffix)[1] = "." THEN Val(c.suffix)
                                     ELSE <<".">> \o Val(c.suffix)
                           plain == Append(dir, stem \o suffix)
                       IN  (c.overwrite = Some(TRUE) /\ plain # VideoFile)
                               => (exc = "none" /\ ret = Some(plain))
    /\ (/\ pc = "extracting"
        /\ Val(handler).method \in {AUDIO, CLIP, GIF}
        /\ Val(request)["overwrite"] = Some(TRUE))
           => LET q == Val(request)
                  o == Val(Val(handler).options)
                  dir == IF IsNone(o["destdir"]) THEN VideoDir ELSE Val(o["destdir"])
                  stem == IF IsNone(o["filename"]) THEN <<"v">> ELSE Val(o["filename"])
                  format == IF Val(handler).method = AUDIO THEN Val(q["audio_format"])
                            ELSE IF Val(handler).method = CLIP THEN <<".", "m", "p", "4">>
                            ELSE <<".", "g", "i", "f">>
                  suffix == IF format[1] = "." THEN format ELSE <<".">> \o format
                  plain == Append(dir, stem \o suffix)
              IN  plain # VideoFile => q["destpath"] = Some(plain)

C8_Witness ==
    /\ pc = "extracting"
    /\ Val(handler).method = GIF
    /\ Val(request)["overwrite"] = Some(TRUE)
    /\ Exists(fs, PathJoin(VideoDir, <<"v", ".", "g", "i", "f">>))
    /\ Val(request)["destpath"] = Some(PathJoin(VideoDir, <<"v", ".", "g", "i", "f">>))

\* C9, as stated: a frames request uses a requested destdir unchanged; with
\* no destdir the destination is a directory next to the video named after
\* the video file plus "_frames", enumerated ("_frames", "_frames (2)", ...)
\* when overwrite is not True until it names a directory that does not exist
C9_FramesDestdirUsedUnchanged ==
    /\ (/\ pc = "extracting"
        /\ Val(handler).method = FRAMES
        /\ ~IsNone(Val(Val(handler).options)["destdir"]))
           => Val(request)["destpath"] = Val(Val(handler).options)["destdir"]
    /\ (/\ pc = "done"
        /\ ~IsNone(call)
        /\ Val(call).op = "prepare_destpath_frames"
        /\ ~IsNone(Val(call).destdir))
           => ret = Val(call).destdir
    /\ (\/ /\ pc = "extracting"
           /\ Val(handler).method = FRAMES
           /\ IsNone(Val(Val(handler).options)["destdir"])
        \/ /\ pc = "done"
           /\ ~IsNone(call)
           /\ Val(call).op = "prepare_destpath_frames"
           /\ IsNone(Val(call).destdir))
           => LET dest == IF pc = "done" THEN Val(ret) ELSE Val(Val(request)["destpath"])
                  overwrite == IF pc = "done" THEN Val(call).overwrite
                               ELSE Val(request)["overwrite"]
                  tagged == <<"v", ".", "m", "p", "4", "_", "f", "r", "a", "m", "e", "s">>
              IN  /\ PathParent(dest) = VideoDir
                  /\ StartsWith(PathName(dest), tagged)
                  /\ overwrite = Some(TRUE) => PathName(dest) = tagged
                  /\ overwrite # Some(TRUE) =>
                         /\ ~Exists(fs, dest)
                         /\ PathName(dest) # tagged => Exists(fs, Append(VideoDir, tagged))

\* C9, amended: a requested destdir other than the video file's own path is
\* used unchanged; when no destdir is requested, or the requested one is the
\* video file's path, the destination is a directory next to the video named
\* after the video file plus "_frames", enumerated ("_frames", "_frames (2)",
\* ...) when overwrite is not True until it names a directory that does not exist
C9_FramesDestdirUsedUnlessVideoPath ==
    LET frames_request == pc = "extracting" /\ Val(handler).method = FRAMES
        direct_call == pc = "done" /\ ~IsNone(call)
                       /\ Val(call).op = "prepare_destpath_frames"
    IN  (frames_request \/ direct_call) =>
            LET destdir == IF direct_call THEN Val(call).destdir
                           ELSE Val(Val(handler).options)["destdir"]
                dest == IF direct_call THEN Val(ret) ELSE Val(Val(request)["destpath"])
                overwrite == IF direct_call THEN Val(call).overwrite
                             ELSE Val(request)["overwrite"]
                tagged == <<"v", ".", "m", "p", "4", "_", "f", "r", "a", "m", "e", "s">>
            IN  IF ~IsNone(destdir) /\ destdir # Some(VideoFile)
                THEN Some(dest) = destdir
                ELSE /\ PathParent(dest) = VideoDir
                     /\ StartsWith(PathName(dest), tagged)
                     /\ overwrite = Some(TRUE) => PathName(dest) = tagged
                     /\ overwrite # Some(TRUE) =>
                            /\ ~Exists(fs, dest)
                            /\ PathName(dest) # tagged => Exists(fs, Append(VideoDir, tagged))

C9_Witness ==
    /\ pc = "extracting"
    /\ Val(handler).method = FRAMES
    /\ Val(Val(handler).options)["destdir"] = Some(VideoFile)
    /\ Val(request)["overwrite"] # Some(TRUE)
    /\ Val(request)["destpath"] =
           Some(PathJoin(VideoDir, <<"v", ".", "m", "p", "4", "_", "f", "r", "a", "m", "e", "s">>))

\* C10: preparing an audio request for a video without audio raises
\* NoAudioError as its first step: no start/stop/fps default, range or
\* destination path is computed and the request is not marked prepared;
\* clip, frames and gif requests never raise NoAudioError
C10_NoAudioRaisedFirst ==
    /\ exc = "NoAudioError" => (~IsNone(handler) /\ Val(handler).method = AUDIO)
    /\ (/\ ~IsNone(handler)
        /\ Val(handler).method = AUDIO
        /\ ~IsNone(video)
        /\ ~Val(video).has_audio)
           => LET h == Val(handler)
                  o == Val(h.options)
                  new == NewRequest(AUDIO, o)
                  reached == /\ new.exc = "none"
                             /\ h.skip_validation \/ Validate(AUDIO, fs, new).exc = "none"
              IN  /\ pc = "done"
                  /\ IsNone(result)
                  /\ reached <=> exc = "NoAudioError"
                  /\ reached =>
                         LET q == Val(request)
                         IN  /\ \A k \in OptionFields : IsNone(o[k]) => IsNone(q[k])
                             /\ q["extraction_range"] = UnsetRange
                             /\ IsNone(q["destpath"])
                             /\ q["_is_prepared"] # Some(TRUE)

C10_Witness ==
    /\ pc = "done"
    /\ exc = "NoAudioError"
    /\ Val(handler).method = AUDIO
    /\ ~Val(video).has_audio
    /\ \A k \in {"start_time", "stop_time", "fps"} : IsNone(Val(request)[k])
    /\ Val(request)["extraction_range"] = UnsetRange
    /\ IsNone(Val(request)["destpath"])

(***************************************************************************)
(* Properties: the request objects (requestors.py)                         *)
(***************************************************************************)
\* C11: prepare(video) on a request on which validate() was never called
\* validates the fields first and then prepares them: it ends as validate()
\* followed by prepare(video) ends, with the same prepared request or the same
\* validation or preparation error
C11_PrepareValidatesFirst ==
    (pc = "done" /\ Val(call).op = "Request.prepare" /\ ~Val(call).validate_first)
    => LET c == Val(call)
           expected == Prepare(c.method, fs, Val(video),
                               FromValidated(Validate(c.method, fs,
                                                      NewRequest(c.method, c.args))))
       IN  /\ exc = expected.exc
           /\ exc = "none" => ret = Some(expected.req)
           /\ exc \in {"none"} \cup VideoXTErrors

\* C12: is_validated is False until validate() has completed and True
\* afterwards; is_prepared is False until prepare() has completed and True
\* afterwards; neither raises
C12_IsValidatedIsPreparedReportState ==
    (pc = "done" /\ Val(call).op \in {"is_validated", "is_prepared"})
    => /\ exc = "none"
       /\ ret = Some(Val(call).completed)

(***************************************************************************)
(* Properties: the extraction handler (handlers.py)                        *)
(***************************************************************************)
\* C13: _perform_extraction turns a normal return of extractor.extract() into
\* success True / 'Extraction successful.', a VideoXTError into success False /
\* 'Extraction failed: <error>' and a KeyboardInterrupt into success False /
\* 'Extraction cancelled.'; in each case it returns the Result (no exception
\* leaves it), elapsed_time is set, and destpath is set, to the request's
\* destination path, exactly when that path exists at the end
C13_PerformExtractionMapsOutcome ==
    [][\A outcome \in ExtractOutcomes, wrote \in BOOLEAN :
          PerformExtraction(outcome, wrote) =>
              LET res == Val(result')
                  dest == Val(Val(request)["destpath"])
              IN  /\ res.success = Some(outcome = "return")
                  /\ res.message =
                         Some(IF outcome = "return" THEN "Extraction successful."
                              ELSE IF outcome = "VideoXTError"
                              THEN "Extraction failed: <error>"
                              ELSE "Extraction cancelled.")
                  /\ exc' = "none"
                  /\ ret' # None
                  /\ ~IsNone(res.elapsed_time)
                  /\ res.destpath = IF Exists(fs', dest) THEN Some(dest) ELSE None]_vars

\* a failed extraction that left a partial output at the destination path
C13_Witness ==
    /\ pc = "done"
    /\ ~IsNone(result)
    /\ Val(result).success = Some(FALSE)
    /\ Val(result).message = Some("Extraction failed: <error>")
    /\ Val(result).destpath = Some(Val(Val(request)["destpath"]))
    /\ ~IsNone(Val(result).elapsed_time)

C15_TimestampForms ==
    (pc = "done" /\ Val(call).op = "valid_timestamp")
    => LET t == Val(call).timestamp
           s == SplitHead(Val(t), ".")
           D(i) == IsDigit(s[i])
           SS(i) == IsDigit(s[i]) /\ DigitValue(s[i]) <= 5 /\ IsDigit(s[i + 1])
           form == \/ Len(s) = 4 /\ D(1) /\ s[2] = ":" /\ SS(3)
                   \/ Len(s) = 5 /\ SS(1) /\ s[3] = ":" /\ SS(4)
                   \/ Len(s) = 7 /\ D(1) /\ s[2] = ":" /\ SS(3) /\ s[5] = ":" /\ SS(6)
                   \/ Len(s) = 8 /\ SS(1) /\ s[3] = ":" /\ SS(4) /\ s[6] = ":" /\ SS(7)
       IN  IF ~IsNone(t) /\ form THEN exc = "none" /\ ret = Some(s)
           ELSE exc = "ValidationError"

\* C16: valid_rotate_value returns the value as an int only when the value is
\* 0, 90, 180 or 270, and raises ValidationError for every other value, among
\* them numbers that are not whole (90.5) and numeric strings that are not
\* integers ('0.1')
C16_RotateValues ==
    (pc = "done" /\ Val(call).op = "valid_rotate_value")
    => LET value == ToFloat(Val(call).n)
           valid == /\ value.exc = "none"
                    /\ value.v \in {r * TicksPerSecond : r \in VALID_ROTATE_VALUES}
       IN  /\ exc \in {"none", "ValidationError"}
           /\ exc = "none" => valid /\ ret = Some(value.v \div TicksPerSecond)
           /\ ~valid => exc = "ValidationError"

(***************************************************************************)
(* Properties: the preparers (preppers.py)                                 *)
(***************************************************************************)
\* C17: prepare_images_expected returns ceil((stop_frame - start_frame) /
\* capture_rate) for a capture rate other than 0 and raises PreparationError
\* when a value is None or the capture rate is 0; a prepared frames request
\* with capture rate 1 expects as many images as its range has frames, which
\* for the default request is the video's frame count
C17_ImagesExpected ==
    /\ (pc = "done" /\ Val(call).op = "prepare_images_expected")
       => LET c == Val(call)
          IN  IF IsNone(c.start_frame) \/ IsNone(c.stop_frame) \/ IsNone(c.capture_rate)
              THEN exc = "PreparationError"
              ELSE IF Val(c.capture_rate) = 0 THEN exc = "PreparationError"
              ELSE LET d == Val(c.stop_frame) - Val(c.start_frame)
                       r == Val(c.capture_rate)
                   IN  /\ exc = "none"
                       /\ \E k \in (0 - MaxFrameCount)..MaxFrameCount :
                              /\ ret = Some(k)
                              /\ r > 0 => (k - 1) * r < d /\ d <= k * r
                              /\ r < 0 => (k - 1) * r > d /\ d >= k * r
    /\ (pc = "done" /\ Val(call).op = "Request.prepare" /\ Val(call).method = FRAMES
           /\ exc = "none" /\ Val(request)["capture_rate"] = Some(One))
       => LET range == Val(request)["extraction_range"]
          IN  /\ Val(request)["images_expected"]
                     = Some(Val(range.stop_frame) - Val(range.start_frame))
              /\ (/\ Val(call).args = NoOptions
                  /\ (Val(video).frame_count * TicksPerSecond * TicksPerSecond)
                         % Val(video).fps = 0)
                 => Val(request)["images_expected"] = Some(Val(video).frame_count)

\* three frames taken two at a time are two images
C17_Witness ==
    /\ pc = "done"
    /\ Val(call).op = "prepare_images_expected"
    /\ Val(call).start_frame = Some(0)
    /\ Val(call).stop_frame = Some(3)
    /\ Val(call).capture_rate = Some(2)
    /\ ret = Some(2)

\* C18: prepare_dimensions returns the requested dimensions when given and
\* the video's otherwise, unchanged when resize is None or 1.0; for any other
\* factor each component is multiplied by it and truncated to an integer, the
\* factor applying to the requested dimensions when both are given
C18_Dimensions ==
    (pc = "done" /\ Val(call).op = "prepare_dimensions")
    => LET c == Val(call)
           dims == IF IsNone(c.request_dimensions) THEN c.video_dimensions
                   ELSE Val(c.request_dimensions)
           \* k is x ticks cut to a whole number, toward zero
           Cut(k, x) == IF x >= 0
                        THEN k * TicksPerSecond <= x /\ x < (k + 1) * TicksPerSecond
                        ELSE (k - 1) * TicksPerSecond < x /\ x <= k * TicksPerSecond
       IN  IF IsNone(c.request_resize) \/ c.request_resize = Some(TicksPerSecond)
           THEN ret = Some(dims)
           ELSE /\ Len(Val(ret)) = 2
                /\ \A i \in 1..2 : Cut(Val(ret)[i], dims[i] * Val(c.request_resize))

\* requested dimensions 3 x 3 resized by 1.5 are 4 x 4
C18_Witness ==
    /\ pc = "done"
    /\ Val(call).op = "prepare_dimensions"
    /\ Val(call).request_dimensions = Some(<<3, 3>>)
    /\ Val(call).request_resize = Some(TicksPerSecond + TicksPerSecond \div 2)
    /\ ret = Some(<<4, 4>>)

(***************************************************************************)
(* Properties: the utilities (utils.py)                                    *)
(***************************************************************************)
\* C19: enumerate_filepath and enumerate_dir return the path itself when it
\* does not exist, and otherwise the first path that does not exist among
\* name+tag, name+tag (2), name+tag (3), ... (name (1), name (2), ... without
\* a tag; a file keeps its suffix after the enumeration); the path returned
\* does not exist, and the search looks at no more candidates than there are
\* existing paths, plus one
C19_EnumerationFindsFirstFreeName ==
    (pc = "done" /\ Val(call).op \in {"enumerate_filepath", "enumerate_dir"})
    => LET p == Val(call).path
           tag == Val(call).tag
           file == Val(call).op = "enumerate_filepath"
           Numbered(k) == <<" ", "(">> \o IntToStr(k) \o <<")">>
           Enumeration(k) == IF IsNone(tag) THEN Numbered(k)
                             ELSE IF k = 1 THEN Val(tag)
                             ELSE Val(tag) \o Numbered(k)
           Candidate(k) ==
               IF k = 0 THEN p
               ELSE IF file
               THEN WithName(p, PathStem(p) \o Enumeration(k) \o PathSuffix(p))
               ELSE WithName(p, PathName(p) \o Enumeration(k))
       IN  /\ exc = "none"
           /\ ~Exists(fs, Val(ret))
           /\ \E k \in 0..Cardinality(fs.files \cup fs.dirs) :
                  /\ ret = Some(Candidate(k))
                  /\ \A j \in 0..(k - 1) : Exists(fs, Candidate(j))

\* v.mp4 and 'v (1).mp4' exist: the file is enumerated to 'v (2).mp4'
C19_Witness ==
    /\ pc = "done"
    /\ Val(call).op = "enumerate_filepath"
    /\ Val(call).path = VideoFile
    /\ Val(call).tag = None
    /\ ret = Some(WithName(VideoFile, <<"v", " ", "(", "2", ")", ".", "m", "p", "4">>))

(***************************************************************************)
(* Properties: the editors (editors.py)                                    *)
(***************************************************************************)
\* C20: in edit_clip_audio, edit_clip_image and edit_clip_motion an option
\* passed as None applies no edit: the call returns a clip, the clip carries
\* no effect of an option that was None, and it is the source clip when every
\* option was None
C20_NoneAppliesNoEdit ==
    (pc = "done" /\ Val(call).op \in {"edit_clip_audio", "edit_clip_image", "edit_clip_motion"})
    => LET c == Val(call)
           Given(option) == option \in DOMAIN c /\ ~IsNone(c[option])
           OptionOf(effect) ==
               CASE effect = "volumex" -> "volume"
                 [] effect = "audio_normalize" -> "normalize"
                 [] effect = "resize" -> "dimensions"
                 [] effect = "rotate" -> "rotate"
                 [] effect = "blackwhite" -> "monochrome"
                 [] effect = "speedx" -> "speed"
                 [] effect = "time_mirror" -> "reverse"
                 [] effect = "time_symmetrize" -> "bounce"
       IN  /\ exc = "none"
           /\ \A i \in DOMAIN Val(ret).effects : Given(OptionOf(Val(ret).effects[i].fx))
           /\ (\A option \in DOMAIN c \ {"op"} : IsNone(c[option])) => ret = Some(SourceClip)

C22_UsageExample ==
    (/\ pc = "done"
     /\ Val(call).op = "ExtractionRange"
     /\ Val(call).start_time = Num(10 * TicksPerSecond)
     /\ Val(call).stop_time = Num(0))
    => /\ exc = "none"
       /\ ret = Some([start_second |-> Some(0),
                      stop_second |-> Some(10 * TicksPerSecond),
                      start_timestamp |-> Some(<<"0", ":", "0", "0", ":", "0", "0">>),
                      stop_timestamp |-> Some(<<"0", ":", "0", "0", ":", "1", "0">>),
                      start_frame |-> Some(0),
                      stop_frame |-> Some(300)])

(***************************************************************************)
(* Properties: the video capture (video.py, extractors.py)                 *)
(***************************************************************************)
\* C23: open_video_capture raises ClosedVideoCaptureError when the capture
\* cannot be opened (isOpened() is False or cv2.error is raised) and then
\* never yields; the capture it yields is open; a capture that was created is
\* never released twice, and it has been released exactly once when control
\* has left the context manager, however the with statement was left
C23_CaptureReleasedOnce ==
    (~IsNone(call) /\ Val(call).op \in {"open_video_capture", "fetch_video_properties"})
    => /\ (Val(call).error # "none" \/ ~media.opens)
          => /\ ~Val(locals).yielded
             /\ pc # "with_body"
             /\ pc = "done" => exc = "ClosedVideoCaptureError"
       /\ pc = "with_body"
          => ~IsNone(capture) /\ Val(capture).opened /\ Val(capture).released = 0
       /\ ~IsNone(capture) => Val(capture).released <= 1
       /\ (pc = "done" /\ ~IsNone(capture)) => Val(capture).released = 1
       /\ (pc = "done" /\ Val(locals).yielded) => exc = Val(locals).raised

\* the body of the with statement raised: the capture was released once and
\* the exception left the with statement
C23_Witness ==
    /\ pc = "done"
    /\ Val(call).op = "open_video_capture"
    /\ Val(locals).yielded
    /\ exc = "Exception"
    /\ Val(capture).released = 1

\* C24: extract_images reads the frames start_frame, start_frame +
\* capture_rate, start_frame + 2 * capture_rate, ... and writes one image for
\* each read that succeeds; it writes at most images_expected images and
\* exactly as many when every read succeeds; it stops right after the
\* images_expected-th write or at the first read that fails, with the capture
\* released once; the number of images it reports as saved is the number of
\* images it wrote
C24_ExtractImages ==
    (pc = "done" /\ Val(call).op = "extract_images" /\ media.opens)
    => LET c == Val(call)
           reads == Val(locals).reads
           written == Val(locals).written
           Succeeds(i) == reads[i] < c.readable
       IN  /\ \A i \in DOMAIN reads : reads[i] = c.start_frame + (i - 1) * c.capture_rate
           /\ \A i \in DOMAIN written : Succeeds(i) /\ written[i].frame = reads[i]
           /\ Len(written) <= c.images_expected
           /\ (\A i \in DOMAIN reads : Succeeds(i)) => Len(written) = c.images_expected
           /\ \/ Len(reads) = Len(written)
              \/ Len(reads) = Len(written) + 1 /\ ~Succeeds(Len(reads))
           /\ Len(reads) <= c.images_expected
           /\ Val(capture).released = 1
           /\ ret = Some(Len(written))

\* C25: whenever prepare_extraction_range returns without error, the range
\* satisfies 0 <= start_second < stop_second <= duration_seconds, for every
\* start time, stop time and duration
C25_RangeWithinVideo ==
    (/\ pc = "done"
     /\ ~IsNone(call)
     /\ Val(call).op = "prepare_extraction_range"
     /\ exc = "none")
        => LET r == Val(ret)
           IN  /\ 0 <= Val(r.start_second)
               /\ Val(r.start_second) < Val(r.stop_second)
               /\ Val(r.stop_second) <= Val(call).duration_seconds

\* C26: the frame numbers of every extraction range prepared for a request
\* satisfy 0 <= start_frame <= stop_frame <= frame_count of the video, with
\* start_frame = floor(start_second * fps) and stop_frame =
\* floor(stop_second * fps), for the video's fps and for an fps given by the
\* request
C26_FramesWithinVideo ==
    (/\ ~IsNone(request)
     /\ ~IsNone(video)
     /\ ~IsNone(Val(request)["extraction_range"].start_frame))
        => LET r == Val(request)["extraction_range"]
               fps == Val(Val(request)["fps"]).n
               unit == TicksPerSecond * TicksPerSecond
               IsFloor(frame, second) ==
                   frame * unit <= second * fps /\ second * fps < (frame + 1) * unit
           IN  /\ 0 <= Val(r.start_frame)
               /\ Val(r.start_frame) <= Val(r.stop_frame)
               /\ Val(r.stop_frame) <= Val(video).frame_count
               /\ IsFloor(Val(r.start_frame), Val(r.start_second))
               /\ IsFloor(Val(r.stop_frame), Val(r.stop_second))

\* C27: every frames request that is validated and prepared without error
\* expects at least one image, and never more images than its range has
\* frames: 1 <= images_expected <= stop_frame - start_frame
C27_AtLeastOneImage ==
    (/\ pc = "done"
     /\ Val(call).op = "Request.prepare"
     /\ Val(call).method = FRAMES
     /\ Val(call).validate_first
     /\ exc = "none")
        => LET range == Val(request)["extraction_range"]
               images_expected == Val(Val(request)["images_expected"])
           IN  /\ images_expected >= 1
               /\ images_expected <= Val(range.stop_frame) - Val(range.start_frame)

====
